---------------------------- MODULE Spec2Model ----------------------------
(***************************************************************************)
(* A model of src/src/mvs/torch_modules.cc (the PatchMatchNet modules of   *)
(* COLMAP's learned multi-view stereo).                                    *)
(*                                                                         *)
(* Tensors are modelled at two levels.  Where a property is about the      *)
(* layout of the data (FeatureNet, the stage loop, the pipeline) a tensor  *)
(* is its shape, the sequence of its sizes.  Where a property is about the *)
(* numbers (InitDepth, Propagation, DifferentiableWarping) a tensor holds  *)
(* exact rationals, so floating-point rounding is outside the model.       *)
(*                                                                         *)
(* Every component has its own variables and its own specification; a      *)
(* specification keeps the variables of the other components idle.         *)
(***************************************************************************)
EXTENDS Integers, Sequences, FiniteSets, TLC

VARIABLES
    \* FeatureNetImpl::forward
    fn_input, fn_output, fn_pc,
    \* PatchMatchModuleImpl::PatchMatchModuleImpl
    ct_cfg, ct_module, ct_pc,
    \* PatchMatchNetModuleImpl::load
    archive, param_dict, values, warnings, lookups, ld_i, ld_pc,
    \* InitDepthImpl::forward
    id_args, id_result, id_pc,
    \* PropagationImpl::forward
    pr_depth, pr_grid, pr_result, pr_pc,
    \* EvaluationImpl::DifferentiableWarping
    dw_args, dw_result, dw_pc,
    \* PatchMatchNetModuleImpl::forward and the stage it is in
    net_images, net_cfg, patch_match, ref_features, src_features,
    net_depth, net_score, net_view_weights, net_stage, pm_frame,
    calls, returns, iters, net_output, net_pc,
    \* PatchMatchNetModuleImpl::CalcConfidence
    cf_score, cf_num_depth, cf_result, cf_pc

fn_vars == <<fn_input, fn_output, fn_pc>>

ct_vars == <<ct_cfg, ct_module, ct_pc>>

ld_vars == <<archive, param_dict, values, warnings, lookups, ld_i, ld_pc>>

id_vars == <<id_args, id_result, id_pc>>

pr_vars == <<pr_depth, pr_grid, pr_result, pr_pc>>

dw_vars == <<dw_args, dw_result, dw_pc>>

net_vars ==
    <<net_images, net_cfg, patch_match, ref_features, src_features,
      net_depth, net_score, net_view_weights, net_stage, pm_frame,
      calls, returns, iters, net_output, net_pc>>

cf_vars == <<cf_score, cf_num_depth, cf_result, cf_pc>>

vars == <<fn_vars, ct_vars, ld_vars, id_vars, pr_vars, dw_vars, net_vars, cf_vars>>

(***************************************************************************)
(* Shapes.                                                                 *)
(***************************************************************************)

\* Where the data of a tensor comes from: the operation that computed it, the
\* stage and iteration it ran in, and how many times the result has been
\* upsampled since.  The tensors of FeatureNet carry NoTag.
Tag(op, stage, iter) == [op |-> op, stage |-> stage, iter |-> iter, ups |-> 0]

NoTag == Tag("", 0, 0)

\* A torch::Tensor that was default-constructed: tensor.defined() is false.
Undefined == [defined |-> FALSE, sizes |-> <<>>, tag |-> NoTag]

\* A defined tensor of the given sizes.
Tensor(sizes) == [defined |-> TRUE, sizes |-> sizes, tag |-> NoTag]

\* The outcome of an operation that throws (c10::Error).
Thrown == [defined |-> FALSE, sizes |-> <<0>>, tag |-> NoTag]

\* The tensor t, its data marked as coming from tag.
Tagged(t, tag) == IF t.defined THEN [t EXCEPT !.tag = tag] ELSE t

IsThrown(t) == t = Thrown

Max(a, b) == IF a >= b THEN a ELSE b

Min(a, b) == IF a <= b THEN a ELSE b

\* Size of one spatial axis after a convolution (torch::nn::Conv2d).
ConvOut(n, k, s, p, d) == ((n + 2 * p - d * (k - 1) - 1) \div s) + 1

\* A layer [in, out, k, s, p, d] applied to a 4-D tensor: ConvBnReLU2D or
\* torch::nn::Conv2d (batch norm and ReLU keep the shape).
Conv2d(layer, t) ==
    IF IsThrown(t) \/ ~t.defined \/ Len(t.sizes) # 4 THEN Thrown
    ELSE IF t.sizes[2] # layer.in THEN Thrown
    ELSE LET h == ConvOut(t.sizes[3], layer.k, layer.s, layer.p, layer.d)
             w == ConvOut(t.sizes[4], layer.k, layer.s, layer.p, layer.d)
         IN  IF h <= 0 \/ w <= 0 THEN Thrown
             ELSE Tensor(<<t.sizes[1], layer.out, h, w>>)

Layer(in, out, k, s, p) == [in |-> in, out |-> out, k |-> k, s |-> s, p |-> p, d |-> 1]

\* torch::nn::Sequential of convolution layers.
RECURSIVE Sequential(_, _)
Sequential(layers, t) ==
    IF layers = <<>> THEN t
    ELSE Sequential(Tail(layers), Conv2d(Head(layers), t))

\* kInterpBilinear: scale_factor (2, 2) on the two spatial axes of a 4-D tensor.
kInterpScale == 2

Interpolate(t) ==
    IF IsThrown(t) \/ ~t.defined \/ Len(t.sizes) # 4 THEN Thrown
    ELSE [defined |-> TRUE,
          sizes |-> <<t.sizes[1], t.sizes[2],
                      kInterpScale * t.sizes[3], kInterpScale * t.sizes[4]>>,
          tag |-> [t.tag EXCEPT !.ups = @ + 1]]

\* Broadcasting of two shapes, aligned at the last axis; <<0>> if they do not
\* broadcast.
LeftPad(s, n) == [i \in 1..n |-> IF i <= n - Len(s) THEN 1 ELSE s[i - (n - Len(s))]]

BroadcastSizes(s1, s2) ==
    LET n == Max(Len(s1), Len(s2))
        a == LeftPad(s1, n)
        b == LeftPad(s2, n)
    IN  IF \A i \in 1..n : a[i] = b[i] \/ a[i] = 1 \/ b[i] = 1
        THEN [i \in 1..n |-> IF a[i] = 1 THEN b[i] ELSE a[i]]
        ELSE <<0>>

\* An elementwise binary operation (+, *, /) of two tensors.
Elementwise(t1, t2) ==
    IF IsThrown(t1) \/ IsThrown(t2) \/ ~t1.defined \/ ~t2.defined THEN Thrown
    ELSE LET s == BroadcastSizes(t1.sizes, t2.sizes)
         IN  IF s = <<0>> THEN Thrown ELSE Tensor(s)

(***************************************************************************)
(* FeatureNet.                                                             *)
(***************************************************************************)

kNumStages == 4

\* A variant of Stage1Layers whose third block does not halve the resolution.
Stage1LayersFullRes ==
    << Layer(3, 8, 3, 1, 1), Layer(8, 8, 3, 1, 1), Layer(8, 16, 5, 1, 2),
       Layer(16, 16, 3, 1, 1), Layer(16, 16, 3, 1, 1) >>

Stage1Layers ==
    << Layer(3, 8, 3, 1, 1), Layer(8, 8, 3, 1, 1), Layer(8, 16, 5, 2, 2),
       Layer(16, 16, 3, 1, 1), Layer(16, 16, 3, 1, 1) >>

Stage2Layers ==
    << Layer(16, 32, 5, 2, 2), Layer(32, 32, 3, 1, 1), Layer(32, 32, 3, 1, 1) >>

Stage3Layers ==
    << Layer(32, 64, 5, 2, 2), Layer(64, 64, 3, 1, 1), Layer(64, 64, 3, 1, 1) >>

Output1Layer == Layer(64, 16, 1, 1, 0)

Output2Layer == Layer(64, 32, 1, 1, 0)

Output3Layer == Layer(64, 64, 1, 1, 0)

Inner1Layer == Layer(16, 64, 1, 1, 0)

Inner2Layer == Layer(32, 64, 1, 1, 0)

\* FeatureNetImpl::forward: the vector of kNumStages tensors, indexed 0..3, or
\* Thrown in every place when an operation throws.
FeatureNet_forward(input) ==
    LET res1 == Sequential(Stage1Layers, input)
        res2 == Sequential(Stage2Layers, res1)
        res3 == Sequential(Stage3Layers, res2)
        out3 == Conv2d(Output3Layer, res3)
        intra_feat2 == Elementwise(Interpolate(res3), Conv2d(Inner2Layer, res2))
        out2 == Conv2d(Output2Layer, intra_feat2)
        intra_feat1 == Elementwise(Interpolate(intra_feat2), Conv2d(Inner1Layer, res1))
        out1 == Conv2d(Output1Layer, intra_feat1)
    IN  IF IsThrown(out3) \/ IsThrown(out2) \/ IsThrown(out1)
        THEN [i \in 0..(kNumStages - 1) |-> Thrown]
        ELSE [i \in 0..(kNumStages - 1) |->
                 CASE i = 0 -> Undefined
                   [] i = 1 -> out1
                   [] i = 2 -> out2
                   [] i = 3 -> out3]

\* Bounds of the FeatureNet inputs.
MaxBatch == 2
MaxImageSize == 24

ImageChannels == 3

FeatureInit ==
    /\ fn_pc = "ready"
    /\ \E b \in 1..MaxBatch, h \in 1..MaxImageSize, w \in 1..MaxImageSize :
           fn_input = Tensor(<<b, ImageChannels, h, w>>)
    /\ fn_output = [i \in 0..(kNumStages - 1) |-> Undefined]

FeatureIdle ==
    /\ fn_pc = "idle"
    /\ fn_input = Undefined
    /\ fn_output = [i \in 0..(kNumStages - 1) |-> Undefined]

FeatureForward ==
    /\ fn_pc = "ready"
    /\ fn_output' = FeatureNet_forward(fn_input)
    /\ fn_pc' = IF IsThrown(FeatureNet_forward(fn_input)[1]) THEN "thrown" ELSE "done"
    /\ UNCHANGED fn_input

\* C3 (as stated): for an image of height H and width W, both divisible by 8,
\* FeatureNet returns at index 1, 2, 3 maps of size H x W, H/2 x W/2 and
\* H/4 x W/4 with 16, 32 and 64 channels, index 0 being unused.
C3_FullHalfQuarter ==
    LET b == fn_input.sizes[1]
        h == fn_input.sizes[3]
        w == fn_input.sizes[4]
    IN  (fn_pc # "ready" /\ h % 8 = 0 /\ w % 8 = 0) =>
            /\ fn_pc = "done"
            /\ fn_output[0] = Undefined
            /\ fn_output[1] = Tensor(<<b, 16, h, w>>)
            /\ fn_output[2] = Tensor(<<b, 32, h \div 2, w \div 2>>)
            /\ fn_output[3] = Tensor(<<b, 64, h \div 4, w \div 4>>)

\* C3 (amended): for an image of height H and width W, both divisible by 8,
\* FeatureNet returns at index 1, 2, 3 maps of size H/2 x W/2, H/4 x W/4 and
\* H/8 x W/8 with 16, 32 and 64 channels, index 0 being unused.
C3_HalfQuarterEighth ==
    LET b == fn_input.sizes[1]
        h == fn_input.sizes[3]
        w == fn_input.sizes[4]
    IN  (fn_pc # "ready" /\ h % 8 = 0 /\ w % 8 = 0) =>
            /\ fn_pc = "done"
            /\ fn_output[0] = Undefined
            /\ fn_output[1] = Tensor(<<b, 16, h \div 2, w \div 2>>)
            /\ fn_output[2] = Tensor(<<b, 32, h \div 4, w \div 4>>)
            /\ fn_output[3] = Tensor(<<b, 64, h \div 8, w \div 8>>)

\* C3 witness: FeatureNet has run on a 16 x 24 image.
C3_Witness ==
    /\ fn_pc = "done"
    /\ fn_input.sizes[3] = 16
    /\ fn_input.sizes[4] = 24
    /\ fn_output[3].sizes = <<fn_input.sizes[1], 64, 2, 3>>

(***************************************************************************)
(* PatchMatchModule: construction and the neighbour offset tables.         *)
(***************************************************************************)

\* The 3 x 3 ring without its centre, as CalcOffsets writes it (cases 8, 16).
Ring8(dilation) ==
    << <<-dilation, -dilation>>, <<-dilation, 0>>, <<-dilation, dilation>>,
       <<0, -dilation>>, <<0, dilation>>,
       <<dilation, -dilation>>, <<dilation, 0>>, <<dilation, dilation>> >>

\* The axis-aligned neighbours (case 4).
Cross4(dilation) ==
    << <<-dilation, 0>>, <<0, -dilation>>, <<0, dilation>>, <<dilation, 0>> >>

\* The full 3 x 3 block with its centre (cases 9, 17).
Block9(dilation) ==
    << <<-dilation, -dilation>>, <<-dilation, 0>>, <<-dilation, dilation>>,
       <<0, -dilation>>, <<0, 0>>, <<0, dilation>>,
       <<dilation, -dilation>>, <<dilation, 0>>, <<dilation, dilation>> >>

Doubled(offset) == <<2 * offset[1], 2 * offset[2]>>

\* First switch of CalcOffsets: the propagation table and what is reported.
PropOffsets(propagation_neighbors, dilation) ==
    CASE propagation_neighbors = 0 ->
            [table |-> <<>>, reported |-> <<>>]
      [] propagation_neighbors = 4 ->
            [table |-> Cross4(dilation), reported |-> <<>>]
      [] propagation_neighbors = 8 ->
            [table |-> Ring8(dilation), reported |-> <<>>]
      [] propagation_neighbors = 16 ->
            [table |-> Ring8(dilation) \o
                       [i \in 1..8 |-> Doubled(Ring8(dilation)[i])],
             reported |-> <<>>]
      [] OTHER ->
            [table |-> <<>>,
             reported |-> << <<"propagation", propagation_neighbors>> >>]

\* prop_offset_orig[i] (i counted from 0) as the loop of case 17 reads it: an
\* index past the end of the vector is undefined behaviour, which yields
\* whatever the memory holds (ub.garbage).
ReadProp(prop_offset_orig, i, ub) ==
    IF i + 1 <= Len(prop_offset_orig) THEN prop_offset_orig[i + 1]
    ELSE ub.garbage[i]

\* The loop of case 17: offsets 0..7 of the propagation table, doubled, the
\* zero offset skipped.
RECURSIVE Eval17Tail(_, _, _)
Eval17Tail(prop_offset_orig, i, ub) ==
    IF i >= 8 THEN <<>>
    ELSE LET offset == ReadProp(prop_offset_orig, i, ub)
             rest == Eval17Tail(prop_offset_orig, i + 1, ub)
         IN  IF offset[1] = 0 /\ offset[2] = 0 THEN rest
             ELSE <<Doubled(offset)>> \o rest

\* Second switch of CalcOffsets (after dilation--).
EvalOffsets(evaluation_neighbors, dilation, prop_offset_orig, ub) ==
    CASE evaluation_neighbors = 9 ->
            [table |-> Block9(dilation), reported |-> <<>>, oob_read |-> FALSE]
      [] evaluation_neighbors = 17 ->
            [table |-> Block9(dilation) \o Eval17Tail(prop_offset_orig, 0, ub),
             reported |-> <<>>,
             oob_read |-> Len(prop_offset_orig) < 8]
      [] OTHER ->
            [table |-> <<>>,
             reported |-> << <<"evaluation", evaluation_neighbors>> >>,
             oob_read |-> FALSE]

\* PatchMatchModuleImpl::CalcOffsets.  An out-of-bounds read either ends the
\* process (ub.crash) or goes on with the garbage read.
CalcOffsets(propagation_neighbors, evaluation_neighbors, dilation, ub) ==
    LET prop == PropOffsets(propagation_neighbors, dilation)
        eval == EvalOffsets(evaluation_neighbors, dilation - 1, prop.table, ub)
    IN  [prop_offset_orig |-> prop.table,
         eval_offset_orig |-> IF eval.oob_read /\ ub.crash THEN <<>> ELSE eval.table,
         reported |-> prop.reported \o eval.reported,
         oob_read |-> eval.oob_read,
         crashed |-> eval.oob_read /\ ub.crash]

\* The arguments of the constructor that decide the structure of the module.
ModuleConfig(propagation_range, iterations, num_samples, propagation_neighbors, evaluation_neighbors, stage) ==
    [propagation_range |-> propagation_range, iterations |-> iterations,
     num_samples |-> num_samples, propagation_neighbors |-> propagation_neighbors,
     evaluation_neighbors |-> evaluation_neighbors, stage |-> stage]

\* EvaluationImpl::EvaluationImpl: pixelwise_net is registered at stage 3 only.
Evaluation(stage) == [pixelwise_net |-> (stage = 3), similarity_net |-> TRUE]

\* A variant of PropagationConvRegistered that never registers the
\* convolution at stage 1.
PropagationConvNotAtStage1(cfg) ==
    cfg.propagation_neighbors > 0 /\ cfg.stage # 1

\* The condition of line 464: propagation_conv is registered.
PropagationConvRegistered(cfg) ==
    cfg.propagation_neighbors > 0 /\ ~(cfg.stage = 1 /\ cfg.iterations = 1)

\* PatchMatchModuleImpl::PatchMatchModuleImpl: the module it leaves.
PatchMatchModule(cfg, ub) ==
    LET offs == CalcOffsets(cfg.propagation_neighbors, cfg.evaluation_neighbors,
                            cfg.propagation_range, ub)
    IN  [propagation_neighbors |-> cfg.propagation_neighbors,
         evaluation_neighbors |-> cfg.evaluation_neighbors,
         iterations |-> cfg.iterations,
         stage |-> cfg.stage,
         num_samples |-> cfg.num_samples,
         prop_offset_orig |-> offs.prop_offset_orig,
         eval_offset_orig |-> offs.eval_offset_orig,
         reported |-> offs.reported,
         oob_read |-> offs.oob_read,
         constructed |-> ~offs.crashed,
         propagation_conv |-> ~offs.crashed /\ PropagationConvRegistered(cfg),
         evaluation_conv |-> ~offs.crashed,
         evaluation |-> Evaluation(cfg.stage)]

\* What an out-of-bounds read of the propagation table may yield.
Garbage == { <<0, 0>>, <<7, -3>> }

UBChoices == [crash : BOOLEAN, garbage : [0..7 -> Garbage]]

NoUB == [crash |-> FALSE, garbage |-> [i \in 0..7 |-> <<0, 0>>]]

\* Bounds of the construction inputs.
MaxNeighbors == 17
MaxRange == 2
MaxIterations == 2

SupportedPropagation == {0, 4, 8, 16}

SupportedEvaluation == {9, 17}

NoModule == [constructed |-> FALSE]

ConstructInit ==
    /\ ct_pc = "new"
    /\ ct_module = NoModule
    /\ \E pn \in 0..MaxNeighbors, en \in 1..MaxNeighbors, r \in 1..MaxRange,
          it \in 1..MaxIterations, st \in 1..(kNumStages - 1) :
           ct_cfg = ModuleConfig(r, it, 8, pn, en, st)

ConstructIdle ==
    /\ ct_pc = "idle"
    /\ ct_module = NoModule
    /\ ct_cfg = ModuleConfig(1, 1, 1, 0, 9, 1)

\* The constructor runs; undefined behaviour in it is resolved by ub.
Construct ==
    /\ ct_pc = "new"
    /\ \E ub \in (IF PatchMatchModule(ct_cfg, NoUB).oob_read
                   THEN UBChoices ELSE {NoUB}) :
         /\ ct_module' = PatchMatchModule(ct_cfg, ub)
         /\ ct_pc' = IF PatchMatchModule(ct_cfg, ub).constructed
                     THEN "constructed" ELSE "crashed"
    /\ UNCHANGED ct_cfg

\* C7 (as stated): for every supported configuration (propagation count in
\* {0,4,8,16}, evaluation count in {9,17}, any dilation >= 1) CalcOffsets
\* leaves a propagation table of exactly propagation-count entries and an
\* evaluation table of exactly evaluation-count entries; the 17-entry table is
\* the 3 x 3 block followed by the eight offsets of the propagation 8-ring
\* doubled, read only from entries that exist in the propagation table.
C7_TablesComplete ==
    (/\ ct_pc # "new"
     /\ ct_cfg.propagation_neighbors \in SupportedPropagation
     /\ ct_cfg.evaluation_neighbors \in SupportedEvaluation) =>
        /\ ct_pc = "constructed"
        /\ ~ct_module.oob_read
        /\ Len(ct_module.prop_offset_orig) = ct_cfg.propagation_neighbors
        /\ Len(ct_module.eval_offset_orig) = ct_cfg.evaluation_neighbors
        /\ ct_cfg.evaluation_neighbors = 17 =>
              ct_module.eval_offset_orig =
                  Block9(ct_cfg.propagation_range - 1) \o
                  [i \in 1..8 |-> Doubled(Ring8(ct_cfg.propagation_range)[i])]

\* C9 (as stated): an unsupported propagation count is reported and leaves
\* the propagation table empty, an unsupported evaluation count is reported
\* and leaves the evaluation table empty, and in both cases the construction
\* of the stage module completes.
C9_UnsupportedReportedAndConstructed ==
    LET pn == ct_cfg.propagation_neighbors
        en == ct_cfg.evaluation_neighbors
        Reported(m) == \E i \in 1..Len(ct_module.reported) : ct_module.reported[i] = m
    IN  ct_pc # "new" =>
          /\ pn \notin SupportedPropagation =>
                /\ Reported(<<"propagation", pn>>)
                /\ ct_module.prop_offset_orig = <<>>
                /\ ct_pc = "constructed"
          /\ en \notin SupportedEvaluation =>
                /\ Reported(<<"evaluation", en>>)
                /\ ct_module.eval_offset_orig = <<>>
                /\ ct_pc = "constructed"

(***************************************************************************)
(* Loading: ReadValues and PatchMatchNetModuleImpl::load.                  *)
(*                                                                         *)
(* A name is <<kind, i>>: the expected parameters <<"param", i>>, the      *)
(* expected buffers <<"buffer", i>> and the names of the alternate naming  *)
(* convention <<"alt", i>>.  The archive maps the names it holds to their  *)
(* stored values; an entry is of the kind (parameter or buffer) it is read *)
(* as.  A stored value is <<"stored", name>>, an initialised one           *)
(* <<"init", name>>.                                                       *)
(***************************************************************************)

\* Bounds of the loading inputs.
MaxParams == 2
MaxBuffers == 1
MaxAltNames == 2

ParamNames == [i \in 1..MaxParams |-> <<"param", i>>]

BufferNames == [i \in 1..MaxBuffers |-> <<"buffer", i>>]

AltNames == { <<"alt", i>> : i \in 1..MaxAltNames }

Range(seq) == { seq[i] : i \in 1..Len(seq) }

ExpectedNames == Range(ParamNames) \cup Range(BufferNames)

\* archive.try_read(key, value, is_buffer): whether the archive holds key, and
\* the value read.
try_read(arch, key) ==
    IF key \in DOMAIN arch THEN [found |-> TRUE, value |-> arch[key]]
    ELSE [found |-> FALSE, value |-> <<"undefined", key>>]

\* A variant of ReadOne that reads under the alternate name only.
ReadOneNoFallback(arch, dict, key) ==
    LET first == IF key \in DOMAIN dict THEN try_read(arch, dict[key])
                 ELSE [found |-> FALSE, value |-> <<"undefined", key>>]
    IN  [found |-> first.found, value |-> first.value,
         tried |-> IF key \in DOMAIN dict THEN <<dict[key]>> ELSE <<>>]

\* One iteration of the loop of ReadValues for the expected name key: the
\* names tried in order, whether one was found and the value read.
ReadOne(arch, dict, key) ==
    LET first == IF key \in DOMAIN dict THEN try_read(arch, dict[key])
                 ELSE [found |-> FALSE, value |-> <<"undefined", key>>]
        second == IF ~first.found THEN try_read(arch, key) ELSE first
    IN  [found |-> second.found, value |-> second.value,
         tried |-> (IF key \in DOMAIN dict THEN <<dict[key]>> ELSE <<>>) \o
                   (IF ~first.found THEN <<key>> ELSE <<>>)]

\* The whole loop body: copy_ on a name found, a warning otherwise.
ReadValuesStep(names, i) ==
    LET key == names[i]
        r == ReadOne(archive, param_dict, key)
    IN  /\ values' = [values EXCEPT ![key] = IF r.found THEN r.value ELSE @]
        /\ warnings' = IF r.found THEN warnings ELSE Append(warnings, key)
        /\ lookups' = [lookups EXCEPT ![key] = r.tried]
        /\ UNCHANGED <<archive, param_dict>>

\* The partial functions from S to T.
PartialFunctions(S, T) == UNION { [D -> T] : D \in SUBSET S }

LoadInit ==
    /\ ld_pc = "parameters"
    /\ ld_i = 1
    /\ param_dict \in PartialFunctions(ExpectedNames, AltNames)
    /\ \E held \in SUBSET (ExpectedNames \cup AltNames) :
           archive = [n \in held |-> <<"stored", n>>]
    /\ values = [n \in ExpectedNames |-> <<"init", n>>]
    /\ warnings = <<>>
    /\ lookups = [n \in ExpectedNames |-> <<>>]

LoadIdle ==
    /\ ld_pc = "idle"
    /\ ld_i = 0
    /\ param_dict = <<>>
    /\ archive = <<>>
    /\ values = <<>>
    /\ warnings = <<>>
    /\ lookups = <<>>

\* load: ReadValues(archive, named_parameters(), param_dict, false), one name
\* at a time.
ReadParameter ==
    /\ ld_pc = "parameters"
    /\ ld_i <= Len(ParamNames)
    /\ ReadValuesStep(ParamNames, ld_i)
    /\ ld_i' = IF ld_i = Len(ParamNames) THEN 1 ELSE ld_i + 1
    /\ ld_pc' = IF ld_i = Len(ParamNames) THEN "buffers" ELSE "parameters"

\* load: ReadValues(archive, named_buffers(), param_dict, true), one name at a
\* time.
ReadBuffer ==
    /\ ld_pc = "buffers"
    /\ ld_i <= Len(BufferNames)
    /\ ReadValuesStep(BufferNames, ld_i)
    /\ ld_i' = IF ld_i = Len(BufferNames) THEN 0 ELSE ld_i + 1
    /\ ld_pc' = IF ld_i = Len(BufferNames) THEN "loaded" ELSE "buffers"

\* The expected names the loops have gone through.
Processed ==
    CASE ld_pc = "parameters" -> { ParamNames[i] : i \in 1..(ld_i - 1) }
      [] ld_pc = "buffers" -> Range(ParamNames) \cup { BufferNames[i] : i \in 1..(ld_i - 1) }
      [] ld_pc = "loaded" -> ExpectedNames
      [] OTHER -> {}

\* C8: each expected name is read first under its alternate name, if it has
\* one, and under its own name if that fails or there is none; a name found
\* has the value read copied into it; a name found by neither path gets a
\* warning and keeps its initialised value, and the loading goes on to the
\* end; no other name gets a warning or changes.
C8_LoadResolution ==
    /\ \A key \in Processed :
         LET has_alt == key \in DOMAIN param_dict
             alt_found == has_alt /\ param_dict[key] \in DOMAIN archive
             own_found == key \in DOMAIN archive
             warned == \E j \in 1..Len(warnings) : warnings[j] = key
         IN  /\ alt_found =>
                   /\ lookups[key] = <<param_dict[key]>>
                   /\ values[key] = <<"stored", param_dict[key]>>
                   /\ ~warned
             /\ (~alt_found /\ own_found) =>
                   /\ lookups[key] = (IF has_alt THEN <<param_dict[key]>> ELSE <<>>) \o <<key>>
                   /\ values[key] = <<"stored", key>>
                   /\ ~warned
             /\ (~alt_found /\ ~own_found) =>
                   /\ lookups[key] = (IF has_alt THEN <<param_dict[key]>> ELSE <<>>) \o <<key>>
                   /\ values[key] = <<"init", key>>
                   /\ warned
    /\ \A key \in ExpectedNames \ Processed :
         /\ values[key] = <<"init", key>>
         /\ lookups[key] = <<>>
    /\ ld_pc = "loaded" => Processed = ExpectedNames

\* C8 witness: the loading has ended with a name read under its alternate
\* name, a name read under its own name after the alternate read failed, and
\* a name found by neither path.
C8_Witness ==
    /\ ld_pc = "loaded"
    /\ \E k1, k2, k3 \in ExpectedNames :
         /\ k1 \in DOMAIN param_dict
         /\ Len(lookups[k1]) = 1 /\ values[k1] = <<"stored", param_dict[k1]>>
         /\ Len(lookups[k2]) = 2 /\ values[k2] = <<"stored", k2>>
         /\ values[k3] = <<"init", k3>> /\ warnings = <<k3>>

(***************************************************************************)
(* Exact arithmetic.  A number is a fraction <<n, d>> in lowest terms with *)
(* d > 0.                                                                  *)
(***************************************************************************)

Abs(x) == IF x < 0 THEN -x ELSE x

RECURSIVE GCD(_, _)
GCD(a, b) == IF b = 0 THEN a ELSE GCD(b, a % b)

Rat(n, d) ==
    LET g == GCD(Abs(n), Abs(d))
        s == IF d < 0 THEN -1 ELSE 1
    IN  <<(s * n) \div g, (s * d) \div g>>

RInt(i) == <<i, 1>>

RAdd(a, b) == Rat(a[1] * b[2] + b[1] * a[2], a[2] * b[2])

RSub(a, b) == Rat(a[1] * b[2] - b[1] * a[2], a[2] * b[2])

RMul(a, b) == Rat(a[1] * b[1], a[2] * b[2])

\* a / b for b # 0.
RDiv(a, b) == Rat(a[1] * b[2], a[2] * b[1])

RLess(a, b) == a[1] * b[2] < b[1] * a[2]

RLeq(a, b) == a[1] * b[2] <= b[1] * a[2]

RFloor(a) == a[1] \div a[2]

\* Tensor::clamp(lo, hi).
RClamp(a, lo, hi) == IF RLess(a, lo) THEN lo ELSE IF RLess(hi, a) THEN hi ELSE a

\* Integer division of C++: truncation toward zero.
CDiv(a, b) == IF a >= 0 THEN a \div b ELSE -((-a) \div b)

(***************************************************************************)
(* Hypothesis volumes with their values, for one batch element: a volume   *)
(* maps each pixel <<y, x>> (counted from 0) to the sequence of its        *)
(* hypotheses along the sample axis.                                       *)
(***************************************************************************)

Pixels(height, width) == (0..(height - 1)) \X (0..(width - 1))

Volume(height, width, at) ==
    [defined |-> TRUE, thrown |-> FALSE, height |-> height, width |-> width, at |-> at]

NoVolume ==
    [defined |-> FALSE, thrown |-> FALSE, height |-> 0, width |-> 0, at |-> <<>>]

ThrownVolume ==
    [defined |-> FALSE, thrown |-> TRUE, height |-> 0, width |-> 0, at |-> <<>>]

\* The number of hypotheses per pixel: depth.size(1).
NumDepth(v) == Len(v.at[<<0, 0>>])

(***************************************************************************)
(* InitDepth.                                                              *)
(***************************************************************************)

rand_num_samples == 48

\* A variant of ColdStart that counts the bins from 1 (arange(1, 49)).
ColdStartFromOne(depth_min, depth_max, height, width, noise) ==
    LET inv_depth_min == RDiv(RInt(1), depth_min)
        inv_depth_max == RDiv(RInt(1), depth_max)
        bin == RDiv(RSub(inv_depth_min, inv_depth_max), RInt(rand_num_samples))
    IN  Volume(height, width,
               [p \in Pixels(height, width) |->
                   [k \in 1..rand_num_samples |->
                       RDiv(RInt(1),
                            RAdd(RMul(bin, RAdd(noise[p][k], RInt(k))),
                                 inv_depth_max))]])

\* InitDepthImpl::forward without a prior: torch::rand (noise, in [0, 1)) plus
\* arange(0, 48), mapped linearly to inverse depth.
ColdStart(depth_min, depth_max, height, width, noise) ==
    LET inv_depth_min == RDiv(RInt(1), depth_min)
        inv_depth_max == RDiv(RInt(1), depth_max)
        bin == RDiv(RSub(inv_depth_min, inv_depth_max), RInt(rand_num_samples))
    IN  Volume(height, width,
               [p \in Pixels(height, width) |->
                   [k \in 1..rand_num_samples |->
                       RDiv(RInt(1),
                            RAdd(RMul(bin, RAdd(noise[p][k], RInt(k - 1))),
                                 inv_depth_max))]])

\* InitDepthImpl::forward with a prior and num_samples > 1:
\* arange(-num_samples / 2, num_samples / 2) viewed as num_samples offsets.
PerturbPrior(depth_init, depth_min, depth_max, num_samples, interval_scale) ==
    LET inv_depth_min == RDiv(RInt(1), depth_min)
        inv_depth_max == RDiv(RInt(1), depth_max)
        first == CDiv(-num_samples, 2)
        last == CDiv(num_samples, 2)
        step == RMul(RSub(inv_depth_min, inv_depth_max), interval_scale)
    IN  IF last - first # num_samples THEN ThrownVolume
        ELSE Volume(depth_init.height, depth_init.width,
                    [p \in Pixels(depth_init.height, depth_init.width) |->
                        [k \in 1..num_samples |->
                            RDiv(RInt(1),
                                 RClamp(RAdd(RDiv(RInt(1), depth_init.at[p][1]),
                                             RMul(step, RInt(first + k - 1))),
                                        inv_depth_max, inv_depth_min))]])

\* InitDepthImpl::forward.
InitDepth_forward(depth_init, depth_min, depth_max, num_samples, interval_scale, height, width, noise) ==
    IF ~depth_init.defined
    THEN ColdStart(depth_min, depth_max, height, width, noise)
    ELSE IF num_samples = 1 THEN depth_init
    ELSE PerturbPrior(depth_init, depth_min, depth_max, num_samples, interval_scale)

\* Bounds of the InitDepth inputs.
MaxDepth == 3
MaxSamples == 3
MaxSide == 2
NoiseSteps == 2

\* The noise of torch::rand at pixel p, sample k: a multiple of 1/NoiseSteps
\* in [0, 1) that varies with the pixel and the sample.
Noise(a, b, height, width) ==
    [p \in Pixels(height, width) |->
        [k \in 1..rand_num_samples |->
            Rat((a + b * (k + p[1] + 2 * p[2])) % NoiseSteps, NoiseSteps)]]

\* A prior depth map within [depth_min, depth_max], one value per pixel.
Prior(c, depth_min, depth_max, height, width) ==
    Volume(height, width,
           [p \in Pixels(height, width) |->
               << CASE (c + p[1] + p[2]) % 3 = 0 -> depth_min
                    [] (c + p[1] + p[2]) % 3 = 1 -> depth_max
                    [] OTHER -> RDiv(RAdd(depth_min, depth_max), RInt(2)) >>])

IntervalScales == { <<1, 4>>, <<1, 16>> }

InitDepthInit ==
    /\ id_pc = "ready"
    /\ id_result = NoVolume
    /\ \E lo \in 1..MaxDepth, hi \in 1..MaxDepth, n \in 1..MaxSamples,
          h \in 1..MaxSide, w \in 1..MaxSide, a \in 0..(NoiseSteps - 1),
          b \in 0..(NoiseSteps - 1), s \in IntervalScales, c \in 0..3 :
           /\ lo < hi
           /\ id_args = [depth_init |-> IF c = 3 THEN NoVolume
                                        ELSE Prior(c, RInt(lo), RInt(hi), h, w),
                         depth_min |-> RInt(lo), depth_max |-> RInt(hi),
                         num_samples |-> n, interval_scale |-> s,
                         height |-> h, width |-> w,
                         noise |-> IF c = 3 THEN Noise(a, b, h, w)
                                   ELSE Noise(0, 0, h, w)]

InitDepthIdle ==
    /\ id_pc = "idle"
    /\ id_result = NoVolume
    /\ id_args = <<>>

InitDepthForward ==
    /\ id_pc = "ready"
    /\ id_result' = InitDepth_forward(id_args.depth_init, id_args.depth_min,
                                      id_args.depth_max, id_args.num_samples,
                                      id_args.interval_scale, id_args.height,
                                      id_args.width, id_args.noise)
    /\ id_pc' = "done"
    /\ UNCHANGED id_args

IsZeroNoise(noise) == \A p \in DOMAIN noise : \A k \in DOMAIN noise[p] : noise[p][k] = <<0, 1>>

\* C4 (as stated): the cold start gives exactly 48 hypotheses per pixel
\* whatever num_samples is; with zero noise every hypothesis lies strictly
\* inside (depth_min, depth_max), and the hypotheses are strictly ordered by
\* index in inverse depth.
C4_ColdStartStrictlyInside ==
    (id_pc = "done" /\ ~id_args.depth_init.defined) =>
        /\ id_result.defined
        /\ \A p \in Pixels(id_args.height, id_args.width) :
             /\ Len(id_result.at[p]) = 48
             /\ IsZeroNoise(id_args.noise) =>
                  \A k \in 1..48 :
                     /\ RLess(id_args.depth_min, id_result.at[p][k])
                     /\ RLess(id_result.at[p][k], id_args.depth_max)
                     /\ k < 48 => RLess(RDiv(RInt(1), id_result.at[p][k]),
                                        RDiv(RInt(1), id_result.at[p][k + 1]))

\* C4 (amended): the cold start gives exactly 48 hypotheses per pixel whatever
\* num_samples is; with zero noise hypothesis 0 is depth_max itself and every
\* other hypothesis lies strictly inside (depth_min, depth_max), so all lie in
\* (depth_min, depth_max], and the hypotheses are strictly ordered by index in
\* inverse depth.
C4_ColdStartWithinRange ==
    (id_pc = "done" /\ ~id_args.depth_init.defined) =>
        /\ id_result.defined
        /\ \A p \in Pixels(id_args.height, id_args.width) :
             /\ Len(id_result.at[p]) = 48
             /\ IsZeroNoise(id_args.noise) =>
                  /\ id_result.at[p][1] = id_args.depth_max
                  /\ \A k \in 1..48 :
                       /\ RLess(id_args.depth_min, id_result.at[p][k])
                       /\ RLeq(id_result.at[p][k], id_args.depth_max)
                       /\ k > 1 => RLess(id_result.at[p][k], id_args.depth_max)
                       /\ k < 48 => RLess(RDiv(RInt(1), id_result.at[p][k]),
                                          RDiv(RInt(1), id_result.at[p][k + 1]))

\* C4 witness: a cold start with zero noise and num_samples other than 48 has
\* produced its volume.
C4_Witness ==
    /\ id_pc = "done"
    /\ ~id_args.depth_init.defined
    /\ IsZeroNoise(id_args.noise)
    /\ id_args.num_samples = 2
    /\ NumDepth(id_result) = 48
    /\ id_result.at[<<0, 0>>][48] # id_args.depth_min

\* The hypothesis the perturbation of prior by an integer offset gives.
PerturbedDepth(prior, offset, depth_min, depth_max, interval_scale) ==
    RDiv(RInt(1),
         RClamp(RAdd(RDiv(RInt(1), prior),
                     RMul(RMul(RSub(RDiv(RInt(1), depth_min), RDiv(RInt(1), depth_max)),
                               interval_scale),
                          RInt(offset))),
                RDiv(RInt(1), depth_max), RDiv(RInt(1), depth_min)))

\* C11 (as stated): with a prior and num_samples n > 1, odd or even, InitDepth
\* returns a volume of exactly n hypotheses per pixel, built from n consecutive
\* integer offsets around 0, hypothesis k being
\* 1 / clamp(1/prior + offset_k * (1/depth_min - 1/depth_max) * interval_scale,
\* 1/depth_max, 1/depth_min), hence within [depth_min, depth_max].
C11_PerturbBuildsNOffsets ==
    (id_pc = "done" /\ id_args.depth_init.defined /\ id_args.num_samples > 1) =>
        /\ id_result.defined
        /\ \E first \in (-id_args.num_samples)..0 :
             /\ first + id_args.num_samples - 1 >= 0
             /\ \A p \in Pixels(id_args.height, id_args.width) :
                  /\ Len(id_result.at[p]) = id_args.num_samples
                  /\ \A k \in 1..id_args.num_samples :
                       /\ id_result.at[p][k] =
                              PerturbedDepth(id_args.depth_init.at[p][1], first + k - 1,
                                             id_args.depth_min, id_args.depth_max,
                                             id_args.interval_scale)
                       /\ RLeq(id_args.depth_min, id_result.at[p][k])
                       /\ RLeq(id_result.at[p][k], id_args.depth_max)

(***************************************************************************)
(* Sampling grids and grid_sample.                                         *)
(***************************************************************************)

\* A learned offset field (the output of propagation_conv or evaluation_conv):
\* for neighbour i (from 0) and pixel p the pair <<x offset, y offset>>.
\* LearnedOffset(o) is one of three fields, the same at every pixel.
LearnedOffset(o) ==
    CASE o = 0 -> << <<0, 1>>, <<0, 1>> >>
      [] o = 1 -> << <<1, 2>>, <<-1, 2>> >>
      [] OTHER -> << <<-3, 2>>, <<1, 4>> >>

\* No grid: propagation_grid when propagation_conv is not registered.
NoGrid == [defined |-> FALSE, thrown |-> FALSE, rows |-> 0, width |-> 0, at |-> <<>>]

ThrownGrid == [defined |-> FALSE, thrown |-> TRUE, rows |-> 0, width |-> 0, at |-> <<>>]

\* PatchMatchModuleImpl::GetGrid for height, width >= 2: row i * height + y,
\* column x holds the normalised <<x, y>> of neighbour i of pixel <<y, x>>.
\* The offset field has 2 * num_neighbors channels, and the view needs one
\* table entry per neighbour.
GetGrid(offset, orig_offset, num_neighbors, height, width) ==
    IF Len(orig_offset) = 0 \/ Len(orig_offset) # num_neighbors THEN ThrownGrid
    ELSE [defined |-> TRUE, thrown |-> FALSE,
          rows |-> num_neighbors * height, width |-> width,
          at |-> [g \in (0..(num_neighbors * height - 1)) \X (0..(width - 1)) |->
                    LET i == g[1] \div height
                        y == g[1] % height
                        x == g[2]
                        x_offset == RAdd(RInt(orig_offset[i + 1][2]), offset[1])
                        y_offset == RAdd(RInt(orig_offset[i + 1][1]), offset[2])
                    IN  << RSub(RDiv(RAdd(RInt(x), x_offset), Rat(width - 1, 2)), RInt(1)),
                           RSub(RDiv(RAdd(RInt(y), y_offset), Rat(height - 1, 2)), RInt(1)) >>]]

\* grid_sample, align_corners(false): a normalised coordinate as a pixel
\* coordinate.
Unnormalize(coord, size) == RDiv(RSub(RMul(RAdd(coord, RInt(1)), RInt(size)), RInt(1)), RInt(2))

\* Bilinear interpolation of field (pixel -> number) at the pixel coordinate
\* <<ix, iy>>: the four corners, those outside the frame counting as zero.
Bilinear(field, height, width, ix, iy) ==
    LET x0 == RFloor(ix)
        y0 == RFloor(iy)
        wx1 == RSub(ix, RInt(x0))
        wy1 == RSub(iy, RInt(y0))
        wx0 == RSub(RInt(1), wx1)
        wy0 == RSub(RInt(1), wy1)
        Corner(y, x, wy, wx) ==
            IF y >= 0 /\ y < height /\ x >= 0 /\ x < width
            THEN RMul(field[<<y, x>>], RMul(wy, wx))
            ELSE RInt(0)
    IN  RAdd(RAdd(Corner(y0, x0, wy0, wx0), Corner(y0, x0 + 1, wy0, wx1)),
             RAdd(Corner(y0 + 1, x0, wy1, wx0), Corner(y0 + 1, x0 + 1, wy1, wx1)))

\* kGridSampleBorder at one grid location: the coordinate is clipped to the
\* frame.
GridSampleBorder(field, height, width, g) ==
    Bilinear(field, height, width,
             RClamp(Unnormalize(g[1], width), RInt(0), RInt(width - 1)),
             RClamp(Unnormalize(g[2], height), RInt(0), RInt(height - 1)))

\* kGridSampleZeros at one grid location.
GridSampleZeros(field, height, width, g) ==
    Bilinear(field, height, width, Unnormalize(g[1], width), Unnormalize(g[2], height))

(***************************************************************************)
(* Propagation.                                                            *)
(***************************************************************************)

\* torch::sort along the sample axis, ascending.
RECURSIVE Insert(_, _)
Insert(sorted, v) ==
    IF sorted = <<>> THEN <<v>>
    ELSE IF RLeq(v, Head(sorted)) THEN <<v>> \o sorted
    ELSE <<Head(sorted)>> \o Insert(Tail(sorted), v)

RECURSIVE Sort(_)
Sort(seq) == IF seq = <<>> THEN <<>> ELSE Insert(Sort(Tail(seq)), Head(seq))

\* A variant of SelectMiddle that takes the first hypothesis.
SelectFirst(depth) == [p \in DOMAIN depth.at |-> depth.at[p][1]]

\* depth.select(1, num_depth / 2): the middle hypothesis of every pixel.
SelectMiddle(depth) ==
    [p \in DOMAIN depth.at |-> depth.at[p][(NumDepth(depth) \div 2) + 1]]

\* PropagationImpl::forward.
Propagation_forward(depth, grid) ==
    LET height == depth.height
        width == depth.width
        num_neighbors == grid.rows \div height
        middle == SelectMiddle(depth)
    IN  IF ~depth.defined \/ ~grid.defined THEN ThrownVolume
        ELSE IF grid.rows # num_neighbors * height \/ grid.width # width THEN ThrownVolume
        ELSE Volume(height, width,
                 [p \in Pixels(height, width) |->
                     Sort(depth.at[p] \o
                          [j \in 1..num_neighbors |->
                              GridSampleBorder(middle, height, width,
                                  grid.at[<<(j - 1) * height + p[1], p[2]>>])])])

\* Bound of the image side of the Propagation inputs (sides are 2..MaxGrid).
MaxGrid == 3

\* Bound of the number of input volumes tried per shape.
MaxPattern == 3

\* A hypothesis volume of n integer depths per pixel, in no particular order.
AnyVolume(v, n, height, width) ==
    Volume(height, width,
           [p \in Pixels(height, width) |->
               [s \in 1..n |-> RInt(1 + ((v * (p[1] + 2 * p[2]) + (v + 1) * s * s) % 5))]])

PropagationInit ==
    /\ pr_pc = "ready"
    /\ pr_result = NoVolume
    /\ \E h \in 2..MaxGrid, w \in 2..MaxGrid, n \in 1..MaxSamples,
          v \in 0..MaxPattern,
          pn \in SupportedPropagation \ {0}, r \in 1..MaxRange :
           /\ pr_depth = AnyVolume(v, n, h, w)
           /\ pr_grid = GetGrid(LearnedOffset((v + n) % 3), PropOffsets(pn, r).table, pn, h, w)

PropagationIdle ==
    /\ pr_pc = "idle"
    /\ pr_result = NoVolume
    /\ pr_depth = NoVolume
    /\ pr_grid = NoGrid

PropagationForward ==
    /\ pr_pc = "ready"
    /\ pr_result' = Propagation_forward(pr_depth, pr_grid)
    /\ pr_pc' = "done"
    /\ UNCHANGED <<pr_depth, pr_grid>>

Count(seq, v) == Cardinality({ i \in 1..Len(seq) : seq[i] = v })

SameBag(s, t) ==
    /\ Len(s) = Len(t)
    /\ \A i \in 1..Len(s) : Count(s, s[i]) = Count(t, s[i])

\* C5: Propagation of a volume of n hypotheses per pixel with a grid for k
\* neighbours returns n + k hypotheses per pixel, non-decreasing along the
\* sample axis, the k added values being the border-padded samples, at the
\* k grid locations of the pixel, of the hypothesis at index floor(n/2).
C5_PropagationAddsSorted ==
    pr_pc = "done" =>
        LET n == NumDepth(pr_depth)
            h == pr_depth.height
            w == pr_depth.width
            k == pr_grid.rows \div h
            mid == [q \in Pixels(h, w) |-> pr_depth.at[q][(n \div 2) + 1]]
        IN  /\ pr_result.defined
            /\ \A p \in Pixels(h, w) :
                 /\ Len(pr_result.at[p]) = n + k
                 /\ \A i \in 1..(n + k - 1) :
                        RLeq(pr_result.at[p][i], pr_result.at[p][i + 1])
                 /\ SameBag(pr_result.at[p],
                            pr_depth.at[p] \o
                            [j \in 1..k |->
                                GridSampleBorder(mid, h, w,
                                    pr_grid.at[<<(j - 1) * h + p[1], p[2]>>])])

\* C5 witness: a volume of 3 unsorted hypotheses per pixel has been propagated
\* with a grid of 8 neighbours into 11 hypotheses, one of them a value that
\* was not among the pixel's own hypotheses.
C5_Witness ==
    /\ pr_pc = "done"
    /\ NumDepth(pr_depth) = 3
    /\ pr_grid.rows = 8 * pr_depth.height
    /\ NumDepth(pr_result) = 11
    /\ \E p \in DOMAIN pr_depth.at :
         /\ RLess(pr_depth.at[p][2], pr_depth.at[p][1])
         /\ \E i \in 1..11 : Count(pr_depth.at[p], pr_result.at[p][i]) = 0

(***************************************************************************)
(* DifferentiableWarping, for one batch element and one feature channel.   *)
(* Matrices are 4 x 4, of integers on input.  A coordinate is a fraction,  *)
(* or NaN when it comes from 0 / 0.                                        *)
(***************************************************************************)

NaN == <<0, 0>>

IsFinite(a) == a[2] # 0

\* Floating-point division: x / 0 is an infinity, 0 / 0 is NaN.
FDiv(a, b) ==
    IF ~IsFinite(a) \/ ~IsFinite(b) THEN NaN
    ELSE IF b[1] = 0 THEN (IF a[1] = 0 THEN NaN ELSE <<(IF a[1] > 0 THEN 1 ELSE -1), 0>>)
    ELSE RDiv(a, b)

Idx4 == 1..4

\* The determinant of m without row i and column j.
Minor(m, i, j) ==
    LET r == [n \in 1..3 |-> IF n < i THEN n ELSE n + 1]
        c == [n \in 1..3 |-> IF n < j THEN n ELSE n + 1]
        e(a, b) == m[r[a]][c[b]]
    IN    e(1, 1) * (e(2, 2) * e(3, 3) - e(2, 3) * e(3, 2))
        - e(1, 2) * (e(2, 1) * e(3, 3) - e(2, 3) * e(3, 1))
        + e(1, 3) * (e(2, 1) * e(3, 2) - e(2, 2) * e(3, 1))

Cofactor(m, i, j) == (IF (i + j) % 2 = 0 THEN 1 ELSE -1) * Minor(m, i, j)

Det4(m) ==
    m[1][1] * Cofactor(m, 1, 1) + m[1][2] * Cofactor(m, 1, 2) +
    m[1][3] * Cofactor(m, 1, 3) + m[1][4] * Cofactor(m, 1, 4)

\* torch::inverse of an invertible matrix: the adjugate over the determinant.
Inverse(m) == [i \in Idx4 |-> [j \in Idx4 |-> Rat(Cofactor(m, j, i), Det4(m))]]

\* torch::matmul(a, b), a of integers and b of fractions.
MatMul(a, b) ==
    [i \in Idx4 |-> [j \in Idx4 |->
        RAdd(RAdd(RMul(RInt(a[i][1]), b[1][j]), RMul(RInt(a[i][2]), b[2][j])),
             RAdd(RMul(RInt(a[i][3]), b[3][j]), RMul(RInt(a[i][4]), b[4][j])))]]

\* rot * (x, y, 1) * depth + trans: the point of pixel <<y, x>> at depth d in
\* the frame of the neighbour view.
Transform(pmtx, p, d) ==
    [c \in 1..3 |->
        RAdd(RMul(RAdd(RAdd(RMul(pmtx[c][1], RInt(p[2])), RMul(pmtx[c][2], RInt(p[1]))),
                       pmtx[c][3]),
                  d),
             pmtx[c][4])]

\* The threshold of the behind-camera mask, 1e-3.
MaskEpsilon == <<1, 1000>>

\* A variant of MaskedStack that sends the masked points to the last pixel of
\* the frame.
MaskedStackLastPixel(xyz, mask, height, width) ==
    << IF mask THEN RInt(width - 1) ELSE xyz[1],
       IF mask THEN RInt(height - 1) ELSE xyz[1],
       IF mask THEN RInt(1) ELSE xyz[1] >>

\* torch::stack of the three masked_fill results: every one of them is taken
\* from xyz.select(1, 0).
MaskedStack(xyz, mask, height, width) ==
    << IF mask THEN RInt(width) ELSE xyz[1],
       IF mask THEN RInt(height) ELSE xyz[1],
       IF mask THEN RInt(1) ELSE xyz[1] >>

\* x / ((size - 1) / 2) - 1.
NormalizeCoord(a, size) ==
    IF IsFinite(a) THEN RSub(RDiv(a, Rat(size - 1, 2)), RInt(1)) ELSE a

\* kGridSampleZeros at a coordinate that may be NaN or infinite: converting
\* such a coordinate to a pixel index is undefined, the sample is nan_sample.
GridSampleZerosF(field, height, width, g, nan_sample) ==
    IF IsFinite(g[1]) /\ IsFinite(g[2]) THEN GridSampleZeros(field, height, width, g)
    ELSE nan_sample

NoWarp == [defined |-> FALSE, thrown |-> FALSE, at |-> <<>>]

ThrownWarp == [defined |-> FALSE, thrown |-> TRUE, at |-> <<>>]

\* EvaluationImpl::DifferentiableWarping for height, width >= 2: for every
\* pixel p and hypothesis k the transformed point, the mask, the projected
\* coordinate, the normalised grid coordinate and the sample of the feature.
DifferentiableWarping(feature, proj, ref_proj, depth, nan_sample) ==
    IF Det4(ref_proj) = 0 THEN ThrownWarp
    ELSE LET height == depth.height
             width == depth.width
             pmtx == MatMul(proj, Inverse(ref_proj))
         IN  [defined |-> TRUE, thrown |-> FALSE,
              at |-> [e \in Pixels(height, width) \X (1..NumDepth(depth)) |->
                  LET xyz == Transform(pmtx, e[1], depth.at[e[1]][e[2]])
                      mask == RLeq(xyz[3], MaskEpsilon)
                      filled == MaskedStack(xyz, mask, height, width)
                      proj_xy == << FDiv(filled[1], filled[3]), FDiv(filled[2], filled[3]) >>
                      grid == << NormalizeCoord(proj_xy[1], width),
                                 NormalizeCoord(proj_xy[2], height) >>
                  IN  [xyz |-> xyz, mask |-> mask, proj_xy |-> proj_xy, grid |-> grid,
                       sample |-> GridSampleZerosF(feature, height, width, grid, nan_sample)]]]

Identity3 == << <<1, 0, 0>>, <<0, 1, 0>>, <<0, 0, 1>> >>

\* Half a turn about the y axis: the neighbour camera looks backwards.
RotY180 == << <<-1, 0, 0>>, <<0, 1, 0>>, <<0, 0, -1>> >>

\* A quarter turn about the optical axis.
RotZ90 == << <<0, -1, 0>>, <<1, 0, 0>>, <<0, 0, 1>> >>

Rotations == { Identity3, RotY180, RotZ90 }

Translations == { <<0, 0, 0>>, <<1, 0, 0>>, <<0, -1, 2>>, <<0, 0, -3>> }

\* A projection matrix: intrinsics (focal length f, principal point <<c, c>>)
\* times extrinsics (rotation R, translation t), as a 4 x 4 matrix.
Projection(f, c, R, t) ==
    << << f * R[1][1] + c * R[3][1], f * R[1][2] + c * R[3][2], f * R[1][3] + c * R[3][3], f * t[1] + c * t[3] >>,
       << f * R[2][1] + c * R[3][1], f * R[2][2] + c * R[3][2], f * R[2][3] + c * R[3][3], f * t[2] + c * t[3] >>,
       << R[3][1], R[3][2], R[3][3], t[3] >>,
       << 0, 0, 0, 1 >> >>

\* Bound of the focal lengths of the projection matrices.
MaxFocal == 2

\* A feature map of positive values.
AnyFeature(height, width) == [p \in Pixels(height, width) |-> RInt(1 + ((p[1] + 2 * p[2]) % 3))]

WarpInit ==
    /\ dw_pc = "ready"
    /\ dw_result = NoWarp
    /\ \E h \in 2..MaxGrid, w \in 2..MaxGrid, n \in 1..2,
          f \in 1..MaxFocal, R \in Rotations, t \in Translations :
           dw_args = [feature |-> AnyFeature(h, w),
                      proj |-> Projection(f, 1, R, t),
                      ref_proj |-> IF f % 2 = 1 THEN Projection(1, 0, Identity3, <<0, 0, 0>>)
                                   ELSE Projection(2, 1, Identity3, <<0, 0, 1>>),
                      depth |-> AnyVolume(n - 1, n, h, w)]

WarpIdle ==
    /\ dw_pc = "idle"
    /\ dw_result = NoWarp
    /\ dw_args = <<>>

Warp ==
    /\ dw_pc = "ready"
    /\ \E nan_sample \in {RInt(0), NaN} :
           dw_result' = DifferentiableWarping(dw_args.feature, dw_args.proj,
                                              dw_args.ref_proj, dw_args.depth, nan_sample)
    /\ dw_pc' = "done"
    /\ UNCHANGED dw_args

\* C6: for every image of width, height >= 2, every pixel and hypothesis whose
\* transformed point has depth <= 1e-3 is sent to a coordinate whose bilinear
\* footprint lies outside the neighbour image, and its zero-padded sample is
\* exactly 0 although every feature value is positive.
C6_BehindCameraSamplesZero ==
    dw_pc = "done" =>
        /\ dw_result.defined
        /\ \A e \in DOMAIN dw_result.at :
             LET r == dw_result.at[e]
                 h == dw_args.depth.height
                 w == dw_args.depth.width
             IN  RLeq(r.xyz[3], <<1, 1000>>) =>
                    /\ r.proj_xy = << RInt(w), RInt(h) >>
                    /\ RLeq(RInt(w), Unnormalize(r.grid[1], w))
                    /\ RLeq(RInt(h), Unnormalize(r.grid[2], h))
                    /\ r.sample = RInt(0)

\* C6 witness: a point behind the neighbour camera (negative depth) has been
\* warped, in a feature map whose values are all positive.
C6_Witness ==
    /\ dw_pc = "done"
    /\ \A p \in DOMAIN dw_args.feature : RLess(RInt(0), dw_args.feature[p])
    /\ \E e \in DOMAIN dw_result.at :
         /\ RLess(dw_result.at[e].xyz[3], RInt(0))
         /\ dw_result.at[e].mask
         /\ dw_result.at[e].sample = RInt(0)

\* C10 (as stated): for every pixel and hypothesis whose transformed point
\* (X, Y, Z) has Z > 1e-3, the projected coordinate used for sampling is
\* (X/Z, Y/Z).
C10_ProjectsXYOverZ ==
    dw_pc = "done" =>
        \A e \in DOMAIN dw_result.at :
            LET r == dw_result.at[e]
            IN  RLess(<<1, 1000>>, r.xyz[3]) =>
                   r.proj_xy = << RDiv(r.xyz[1], r.xyz[3]), RDiv(r.xyz[2], r.xyz[3]) >>

(***************************************************************************)
(* The forward pass on shapes: PatchMatchNetModuleImpl::forward, the       *)
(* iterations of PatchMatchModuleImpl::forward and EvaluationImpl::forward.*)
(* A step that throws ends the pass (net_pc = "thrown").                   *)
(***************************************************************************)

Dim(t) == Len(t.sizes)

RECURSIVE Numel(_)
Numel(sizes) == IF sizes = <<>> THEN 1 ELSE Head(sizes) * Numel(Tail(sizes))

\* tensor.view(sizes): the same data under another shape.
View(t, sizes) ==
    IF ~t.defined \/ Numel(t.sizes) # Numel(sizes) THEN Thrown
    ELSE [t EXCEPT !.sizes = sizes]

\* tensor.unsqueeze(d), d counted from 0: the same data with one more axis.
Unsqueeze(t, d) ==
    IF ~t.defined \/ d > Dim(t) THEN Thrown
    ELSE [t EXCEPT !.sizes = SubSeq(@, 1, d) \o <<1>> \o SubSeq(@, d + 1, Len(@))]

\* The sizes left when axis d (from 0) is dropped.
DropAxis(sizes, d) == SubSeq(sizes, 1, d) \o SubSeq(sizes, d + 2, Len(sizes))

\* tensor.squeeze(d): axis d is dropped when its size is 1.
Squeeze(t, d) ==
    IF ~t.defined \/ d >= Dim(t) THEN Thrown
    ELSE IF t.sizes[d + 1] = 1 THEN [t EXCEPT !.sizes = DropAxis(@, d)] ELSE t

\* tensor.select(d, index), d and index counted from 0.
Select(t, d, index) ==
    IF ~t.defined \/ d >= Dim(t) THEN Thrown
    ELSE IF index >= t.sizes[d + 1] THEN Thrown
    ELSE Tensor(DropAxis(t.sizes, d))

\* torch::sum, mean or max over axis d without keepdim.
Reduce(t, d) ==
    IF ~t.defined \/ d >= Dim(t) THEN Thrown ELSE Tensor(DropAxis(t.sizes, d))

\* torch::cat({t1, t2}, d).
Cat(t1, t2, d) ==
    IF ~t1.defined \/ ~t2.defined \/ Dim(t1) # Dim(t2) \/ d >= Dim(t1) THEN Thrown
    ELSE IF DropAxis(t1.sizes, d) # DropAxis(t2.sizes, d) THEN Thrown
    ELSE Tensor([t1.sizes EXCEPT ![d + 1] = @ + t2.sizes[d + 1]])

\* An in-place operation (*=, +=, /=): the result must keep the shape of t.
InPlace(t, other) ==
    IF Elementwise(t, other).defined /\ Elementwise(t, other).sizes = t.sizes
    THEN t ELSE Thrown

\* torch::nn::functional::grid_sample of a 4-D input with a 4-D grid.
GridSample(input, grid) ==
    IF ~input.defined \/ ~grid.defined \/ Dim(input) # 4 \/ Dim(grid) # 4 THEN Thrown
    ELSE IF input.sizes[1] # grid.sizes[1] \/ grid.sizes[4] # 2 THEN Thrown
    ELSE Tensor(<<input.sizes[1], input.sizes[2], grid.sizes[2], grid.sizes[3]>>)

\* ConvBnReLU3D ... Conv3d with kernel 1: the channel axis goes from
\* in_channels to 1, the other axes stay.
Conv3dTo1(t, in_channels) ==
    IF ~t.defined \/ Dim(t) # 5 THEN Thrown
    ELSE IF t.sizes[2] # in_channels THEN Thrown
    ELSE Tensor([t.sizes EXCEPT ![2] = 1])

\* The channels of the feature maps and the correlation groups of stages 1..3.
num_features == <<16, 32, 64>>

group_correlations == <<4, 8, 8>>

\* PatchMatchModuleImpl::GetGrid, the shape of the grid: one table entry is
\* read per neighbour channel pair of the offset field, and the final view
\* needs num_neighbors of them.
GetGridSizes(orig_offset, num_neighbors, batch_size, height, width) ==
    IF Len(orig_offset) = 0 \/ Len(orig_offset) # num_neighbors THEN Thrown
    ELSE Tensor(<<batch_size, num_neighbors * height, width, 2>>)

\* FeatureWeightNetImpl::forward.
FeatureWeightNet_forward(feature, grid, num_neighbors, num_groups) ==
    IF ~feature.defined \/ Dim(feature) # 4 THEN Thrown
    ELSE LET batch_size == feature.sizes[1]
             num_channels == feature.sizes[2]
             height == feature.sizes[3]
             width == feature.sizes[4]
             sampled == View(GridSample(feature, grid),
                             <<batch_size, num_groups, num_channels \div num_groups,
                               num_neighbors, height, width>>)
             grouped == View(feature, <<batch_size, num_groups,
                                        num_channels \div num_groups, height, width>>)
             weight == Reduce(Elementwise(sampled, Unsqueeze(grouped, 3)), 2)
         IN  Squeeze(Conv3dTo1(weight, num_groups), 1)

\* SimilarityNetImpl::forward.
SimilarityNet_forward(similarity, grid, weight, num_groups) ==
    IF ~similarity.defined \/ Dim(similarity) # 5 \/ ~grid.defined \/ Dim(grid) < 2
    THEN Thrown
    ELSE LET batch_size == similarity.sizes[1]
             num_depth == similarity.sizes[3]
             height == similarity.sizes[4]
             width == similarity.sizes[5]
             num_neighbors == grid.sizes[2] \div height
             score == View(GridSample(Squeeze(Conv3dTo1(similarity, num_groups), 1), grid),
                           <<batch_size, num_depth, num_neighbors, height, width>>)
         IN  Reduce(Elementwise(score, weight), 2)

\* PixelwiseNetImpl::forward: the maximum over the hypotheses, keepdim.
PixelwiseNet_forward(input, num_groups) ==
    LET conv == Squeeze(Conv3dTo1(input, num_groups), 1)
    IN  IF ~conv.defined \/ Dim(conv) < 2 THEN Thrown
        ELSE Tensor([conv.sizes EXCEPT ![2] = 1])

\* InitDepthImpl::forward, the shape and the origin of the hypotheses.
InitDepthSizes(depth_init, num_samples, batch_size, height, width, tag) ==
    IF IsThrown(depth_init) THEN Thrown
    ELSE IF ~depth_init.defined
    THEN Tagged(Tensor(<<batch_size, rand_num_samples, height, width>>),
                [tag EXCEPT !.op = "rand"])
    ELSE IF num_samples = 1 THEN depth_init
    ELSE IF CDiv(num_samples, 2) - CDiv(-num_samples, 2) # num_samples THEN Thrown
    ELSE Tagged(Elementwise(depth_init,
                            Tensor(<<batch_size, num_samples, height, width>>)),
                [tag EXCEPT !.op = "perturb"])

\* PropagationImpl::forward, the shape.
PropagationSizes(depth, grid, tag) ==
    IF ~depth.defined \/ Dim(depth) < 4 \/ ~grid.defined \/ Dim(grid) < 2 THEN Thrown
    ELSE LET batch_size == depth.sizes[1]
             num_depth == depth.sizes[2]
             height == depth.sizes[3]
             width == depth.sizes[4]
             num_neighbors == grid.sizes[2] \div height
             prop_depth == View(GridSample(Unsqueeze(Select(depth, 1, num_depth \div 2), 1),
                                           grid),
                                <<batch_size, num_neighbors, height, width>>)
         IN  Tagged(Cat(depth, prop_depth, 1), [tag EXCEPT !.op = "propagation"])

\* PatchMatchModuleImpl::GetDepthWeight, the shape.
GetDepthWeightSizes(depth, grid, evaluation_neighbors) ==
    IF ~depth.defined \/ Dim(depth) < 4 THEN Thrown
    ELSE LET batch_size == depth.sizes[1]
             num_samples == depth.sizes[2]
             height == depth.sizes[3]
             width == depth.sizes[4]
             grid_weight == View(GridSample(depth, grid),
                                 <<batch_size, num_samples, evaluation_neighbors,
                                   height, width>>)
         IN  Elementwise(grid_weight, Unsqueeze(depth, 2))

\* EvaluationImpl::DifferentiableWarping, the shape.
DifferentiableWarpingSizes(feature, depth) ==
    IF ~feature.defined \/ Dim(feature) # 4 \/ ~depth.defined \/ Dim(depth) < 2 THEN Thrown
    ELSE LET batch_size == feature.sizes[1]
             num_channels == feature.sizes[2]
             height == feature.sizes[3]
             width == feature.sizes[4]
             num_depth == depth.sizes[2]
             scaled == View(depth, <<batch_size, 1, num_depth, height * width>>)
         IN  IF ~scaled.defined THEN Thrown
             ELSE Tensor(<<batch_size, num_channels, num_depth, height, width>>)

\* EvaluationImpl::InverseDepthRegression, the shape.  With one hypothesis
\* the division by num_depth - 1 is a floating-point division by zero: it
\* does not throw.
InverseDepthRegressionSizes(depth, score) ==
    IF ~depth.defined \/ Dim(depth) < 2 THEN Thrown
    ELSE LET num_depth == depth.sizes[2]
             depth_index == Reduce(Elementwise(Tensor(<<1, num_depth, 1, 1>>), score), 1)
             inv_depth_min == Select(depth, 1, num_depth - 1)
             inv_depth_max == Select(depth, 1, 0)
         IN  Elementwise(inv_depth_max,
                         Elementwise(Elementwise(inv_depth_min, inv_depth_max), depth_index))

\* A variant of HasWeights that never takes the view weights passed in.
HasWeightsNever(view_weights_in) == FALSE

\* has_weights of EvaluationImpl::forward.
HasWeights(view_weights_in) == view_weights_in.defined

\* EvaluationImpl::forward.  pixelwise lists the views PixelwiseNet was invoked
\* for; an invocation of a PixelwiseNet that is not registered throws.
Evaluation_forward(ev, num_groups, ref_feature_in, sources, depth_init, grid, weight, view_weights_in, is_inverse, tag) ==
    LET batch_size == ref_feature_in.sizes[1]
        num_channels == ref_feature_in.sizes[2]
        height == ref_feature_in.sizes[3]
        width == ref_feature_in.sizes[4]
        num_depth == depth_init.sizes[2]
        has_weights == HasWeights(view_weights_in)
        ref_feature == View(ref_feature_in,
                            <<batch_size, num_groups, num_channels \div num_groups,
                              1, height, width>>)
        similarity(i) ==
            Reduce(Elementwise(View(DifferentiableWarpingSizes(sources[i], depth_init),
                                    <<batch_size, num_groups, num_channels \div num_groups,
                                      num_depth, height, width>>),
                               ref_feature), 2)
        view_weight(i) ==
            IF has_weights THEN Unsqueeze(Select(view_weights_in, 1, i - 1), 1)
            ELSE IF ev.pixelwise_net THEN PixelwiseNet_forward(similarity(i), num_groups)
            ELSE Thrown
        accumulates(i) ==
            /\ InPlace(Tensor(<<batch_size, num_groups, num_depth, height, width>>),
                       Elementwise(similarity(i), Unsqueeze(view_weight(i), 1))).defined
            /\ InPlace(Tensor(<<batch_size, 1, 1, height, width>>),
                       Unsqueeze(view_weight(i), 1)).defined
        failing == {i \in 1..Len(sources) : ~accumulates(i)}
        last == IF failing = {} THEN Len(sources)
                ELSE CHOOSE i \in failing : \A j \in failing : i <= j
        similarity_sum == Tensor(<<batch_size, num_groups, num_depth, height, width>>)
        score == Tagged(SimilarityNet_forward(similarity_sum, grid, weight, num_groups),
                        [tag EXCEPT !.op = "score"])
        depth == IF is_inverse
                 THEN Tagged(InverseDepthRegressionSizes(depth_init, score),
                             [tag EXCEPT !.op = "inverse_regression"])
                 ELSE Tagged(Reduce(Elementwise(depth_init, score), 1),
                             [tag EXCEPT !.op = "regression"])
        computed == IF Len(sources) = 0 THEN Thrown
                    ELSE Tagged(Tensor(<<batch_size, Len(sources), height, width>>),
                                [tag EXCEPT !.op = "pixelwise"])
        thrown == failing # {} \/ ~score.defined \/ ~depth.defined
                  \/ (~has_weights /\ ~computed.defined)
    IN  [thrown |-> thrown,
         has_weights |-> has_weights,
         pixelwise |-> IF has_weights THEN <<>> ELSE [i \in 1..last |-> i],
         depth |-> IF thrown THEN Thrown ELSE depth,
         score |-> IF thrown THEN Thrown ELSE score,
         view_weights |-> IF thrown THEN Thrown
                          ELSE IF has_weights THEN view_weights_in ELSE computed]

\* The part of PatchMatchModuleImpl::forward before the iterations: the grids
\* and the feature weight.
ModuleProlog(m, propagation_range, ref_feature) ==
    LET batch_size == ref_feature.sizes[1]
        height == ref_feature.sizes[3]
        width == ref_feature.sizes[4]
        conv(out) == Conv2d([in |-> num_features[m.stage], out |-> out, k |-> 3, s |-> 1,
                             p |-> propagation_range, d |-> propagation_range],
                            ref_feature)
        propagation_offset == View(conv(2 * m.propagation_neighbors),
                                   <<batch_size, 2 * m.propagation_neighbors, height * width>>)
        propagation_grid ==
            IF ~m.propagation_conv THEN Undefined
            ELSE IF ~propagation_offset.defined THEN Thrown
            ELSE GetGridSizes(m.prop_offset_orig, m.propagation_neighbors,
                              batch_size, height, width)
        evaluation_offset == View(conv(2 * m.evaluation_neighbors),
                                  <<batch_size, 2 * m.evaluation_neighbors, height * width>>)
        evaluation_grid ==
            IF ~evaluation_offset.defined THEN Thrown
            ELSE GetGridSizes(m.eval_offset_orig, m.evaluation_neighbors,
                              batch_size, height, width)
        feature_weight == FeatureWeightNet_forward(ref_feature, evaluation_grid,
                                                   m.evaluation_neighbors,
                                                   group_correlations[m.stage])
    IN  [thrown |-> IsThrown(propagation_grid) \/ ~evaluation_grid.defined
                    \/ ~feature_weight.defined,
         propagation_grid |-> propagation_grid,
         evaluation_grid |-> evaluation_grid,
         feature_weight |-> feature_weight]

\* A variant of Propagates that skips the last iteration of every stage.
PropagatesExceptLastIteration(m, iter) ==
    m.propagation_neighbors > 0 /\ iter # m.iterations - 1

\* A variant of Propagates that propagates whenever propagation is enabled.
PropagatesAlways(m, iter) == m.propagation_neighbors > 0

\* A variant of IsInverse that holds at the last iteration of every stage.
IsInverseEveryLastIteration(m, iter) == iter = m.iterations - 1

\* The last argument of line 540: this Evaluation regresses in inverse depth.
IsInverse(m, iter) == m.stage = 1 /\ iter = m.iterations - 1

\* The condition of line 529: this iteration propagates.
Propagates(m, iter) ==
    m.propagation_neighbors > 0 /\ ~(m.stage = 1 /\ iter = m.iterations - 1)

\* What is left of an Evaluation that was not reached because an earlier
\* operation of the iteration threw.
NotEvaluated ==
    [thrown |-> TRUE, has_weights |-> FALSE, pixelwise |-> <<>>,
     depth |-> Thrown, score |-> Thrown, view_weights |-> Thrown]

\* A variant of UpsampleAfter that upsamples after stage 3 only.
UpsampleAfterStage3Only(s) == s > 2

\* The condition of line 705: the outputs of this stage are upsampled.
UpsampleAfter(s) == s > 1

\* torch::nn::ConvTranspose2d(8, 8, 3).padding(1).output_padding(1).stride(2).
ConvTranspose2d(t) ==
    IF ~t.defined \/ Dim(t) # 4 THEN Thrown
    ELSE IF t.sizes[2] # 8 THEN Thrown
    ELSE Tensor(<<t.sizes[1], 8,
                  (t.sizes[3] - 1) * 2 - 2 * 1 + (3 - 1) + 1 + 1,
                  (t.sizes[4] - 1) * 2 - 2 * 1 + (3 - 1) + 1 + 1>>)

\* RefinementImpl::forward.
Refinement_forward(image, depth_init) ==
    LET image_conv == Conv2d(Layer(3, 8, 3, 1, 1), image)
        depth_deconv == ConvTranspose2d(Sequential(<<Layer(1, 8, 3, 1, 1),
                                                     Layer(8, 8, 3, 1, 1)>>, depth_init))
        concat == Cat(depth_deconv, image_conv, 1)
        residual == Sequential(<<Layer(16, 8, 3, 1, 1), Layer(8, 1, 3, 1, 1)>>, concat)
    IN  Tagged(Squeeze(Elementwise(Interpolate(depth_init), residual), 1),
               Tag("refinement", 0, 0))

\* PatchMatchNetModuleImpl::CalcConfidence.
CalcConfidence(score_in, num_depth) ==
    IF ~score_in.defined \/ Dim(score_in) # 4 THEN Thrown
    ELSE LET score_sum == score_in
             depth_index == Elementwise(score_in, Tensor(<<1, num_depth, 1, 1>>))
             gathered == IF ~depth_index.defined THEN Thrown
                         ELSE Tensor([score_sum.sizes EXCEPT ![2] = 1])
         IN  Tagged(Squeeze(Interpolate(gathered), 1), Tag("confidence", 0, 0))

\* The locals of PatchMatchModuleImpl::forward while no stage runs.
NoFrame ==
    [iter |-> 0, depth |-> Undefined, score |-> Undefined, view_weights |-> Undefined,
     propagation_grid |-> Undefined, evaluation_grid |-> Undefined,
     feature_weight |-> Undefined]

\* Bounds of the forward pass: the number of source views.
MaxSources == 2

\* Image sizes: one the pyramid divides, one with an odd height, one the
\* pyramid cannot align.
ImageSizes == { <<8, 16>>, <<7, 8>>, <<12, 8>> }

\* The propagation counts of stages 1, 2, 3, and the evaluation count that
\* goes with a propagation count (17 needs the 8-ring).
PropagationChoices == { <<0, 8, 16>>, <<4, 0, 8>>, <<16, 4, 0>>, <<8, 16, 4>> }

EvaluationFor(propagation_neighbors) == IF propagation_neighbors >= 8 THEN 17 ELSE 9

StageRange == <<2, 4, 6>>

\* The sample counts of stage 1 and of stages 2 and 3: one, even and odd
\* counts, counts equal to and different from the batch sizes.
SampleChoices == { <<1, 2>>, <<2, 2>>, <<4, 2>>, <<2, 3>>, <<2, 4>>, <<2, 1>> }

Stages == 1..(kNumStages - 1)

ForwardInit ==
    /\ net_pc = "start"
    /\ \E b \in 1..MaxBatch, a \in 1..MaxSources, size \in ImageSizes :
           \* the sizes the pass cannot finish with: one batch entry, one source
           /\ size # <<8, 16>> => (b = 1 /\ a = 1)
           /\ net_images = Tensor(<<b, a + 1, ImageChannels, size[1], size[2]>>)
    /\ \E it \in [Stages -> 0..MaxIterations], ns \in SampleChoices,
          pn \in PropagationChoices :
           net_cfg = [s \in Stages |->
                         ModuleConfig(StageRange[s], it[s],
                                      IF s = 1 THEN ns[1] ELSE ns[2],
                                      pn[s], EvaluationFor(pn[s]), s)]
    /\ patch_match = [s \in Stages |-> PatchMatchModule(net_cfg[s], NoUB)]
    /\ ref_features = [i \in 0..(kNumStages - 1) |-> Undefined]
    /\ src_features = [i \in 0..(kNumStages - 1) |-> <<>>]
    /\ net_depth = Undefined
    /\ net_score = Undefined
    /\ net_view_weights = Undefined
    /\ net_stage = kNumStages - 1
    /\ pm_frame = NoFrame
    /\ calls = <<>>
    /\ returns = <<>>
    /\ iters = <<>>
    /\ net_output = [depth |-> Undefined, conf |-> Undefined]

ForwardIdle ==
    /\ net_pc = "idle"
    /\ net_images = Undefined
    /\ net_cfg = <<>>
    /\ patch_match = <<>>
    /\ ref_features = <<>>
    /\ src_features = <<>>
    /\ net_depth = Undefined
    /\ net_score = Undefined
    /\ net_view_weights = Undefined
    /\ net_stage = 0
    /\ pm_frame = NoFrame
    /\ calls = <<>>
    /\ returns = <<>>
    /\ iters = <<>>
    /\ net_output = [depth |-> Undefined, conf |-> Undefined]

\* images.select(1, im_idx).
Image(im_idx) == Select(net_images, 1, im_idx)

\* Lines 684-692: the features of the reference image and of every source.
ExtractFeatures ==
    /\ net_pc = "start"
    /\ \E ref \in {FeatureNet_forward(Image(0))},
          src \in {[im_idx \in 1..(net_images.sizes[2] - 1) |->
                      FeatureNet_forward(Image(im_idx))]} :
       \E thrown \in {IsThrown(ref[1]) \/ \E i \in DOMAIN src : IsThrown(src[i][1])} :
           /\ ref_features' = ref
           /\ src_features' = [s \in 0..(kNumStages - 1) |->
                                  IF s = 0 THEN <<>>
                                  ELSE [i \in DOMAIN src |-> src[i][s]]]
           /\ net_pc' = IF thrown THEN "thrown" ELSE "loop"
    /\ UNCHANGED <<net_images, net_cfg, patch_match, net_depth, net_score,
                   net_view_weights, net_stage, pm_frame, calls, returns, iters,
                   net_output>>

\* Lines 697-703 and 500-524: the loop calls the module of net_stage with the
\* current depth and view weights as prior.
CallStage ==
    /\ net_pc = "loop"
    /\ net_stage > 0
    /\ \E prolog \in {ModuleProlog(patch_match[net_stage],
                                     net_cfg[net_stage].propagation_range,
                                     ref_features[net_stage])} :
           /\ calls' = Append(calls, [stage |-> net_stage, depth_init |-> net_depth,
                                      view_weights_init |-> net_view_weights])
           /\ pm_frame' = [iter |-> 0, depth |-> net_depth, score |-> Undefined,
                           view_weights |-> net_view_weights,
                           propagation_grid |-> prolog.propagation_grid,
                           evaluation_grid |-> prolog.evaluation_grid,
                           feature_weight |-> prolog.feature_weight]
           /\ net_pc' = IF prolog.thrown THEN "thrown" ELSE "module"
    /\ UNCHANGED <<net_images, net_cfg, patch_match, ref_features, src_features,
                   net_depth, net_score, net_view_weights, net_stage, returns, iters,
                   net_output>>

\* Lines 526-541: one iteration of the module of net_stage: the hypotheses
\* (init), the propagation if Propagates, the depth weight and the Evaluation.
Iterate ==
    /\ net_pc = "module"
    /\ pm_frame.iter < patch_match[net_stage].iterations
    /\ \E m \in {patch_match[net_stage]}, ref_feature \in {ref_features[net_stage]},
          tag \in {Tag("", net_stage, pm_frame.iter)} :
       \E init \in {InitDepthSizes(pm_frame.depth, m.num_samples, ref_feature.sizes[1],
                                    ref_feature.sizes[3], ref_feature.sizes[4], tag)} :
       \E hypotheses \in {IF ~init.defined THEN Thrown
                           ELSE IF Propagates(m, pm_frame.iter)
                           THEN PropagationSizes(init, pm_frame.propagation_grid, tag)
                           ELSE init} :
       \E weight \in {InPlace(GetDepthWeightSizes(hypotheses, pm_frame.evaluation_grid,
                                                   m.evaluation_neighbors),
                               Unsqueeze(pm_frame.feature_weight, 1))} :
       \E is_inverse \in {IsInverse(m, pm_frame.iter)} :
       \E ev \in {IF ~weight.defined THEN NotEvaluated
                   ELSE Evaluation_forward(m.evaluation, group_correlations[m.stage],
                                           ref_feature, src_features[net_stage],
                                           hypotheses, pm_frame.evaluation_grid, weight,
                                           pm_frame.view_weights, is_inverse, tag)} :
           /\ pm_frame' = [pm_frame EXCEPT !.iter = @ + 1,
                                           !.depth = ev.depth,
                                           !.score = ev.score,
                                           !.view_weights = ev.view_weights]
           /\ iters' = Append(iters,
                              [stage |-> m.stage, iter |-> pm_frame.iter,
                               prior |-> pm_frame.depth,
                               init |-> init,
                               propagated |-> init.defined /\ Propagates(m, pm_frame.iter),
                               propagation_grid |-> pm_frame.propagation_grid,
                               hypotheses |-> hypotheses,
                               evaluated |-> weight.defined,
                               is_inverse |-> is_inverse,
                               has_weights |-> ev.has_weights,
                               pixelwise |-> ev.pixelwise,
                               view_weights_in |-> pm_frame.view_weights,
                               view_weights_out |-> ev.view_weights,
                               depth |-> ev.depth,
                               score |-> ev.score,
                               thrown |-> ev.thrown])
           /\ net_pc' = IF ev.thrown THEN "thrown" ELSE "module"
    /\ UNCHANGED <<net_images, net_cfg, patch_match, ref_features, src_features,
                   net_depth, net_score, net_view_weights, net_stage, calls, returns,
                   net_output>>

\* Lines 543 and 701-710: the module returns, the loop upsamples the depth and
\* the view weights when UpsampleAfter says so, and goes to the next stage.
ReturnStage ==
    /\ net_pc = "module"
    /\ pm_frame.iter >= patch_match[net_stage].iterations
    /\ \E depth \in {Unsqueeze(pm_frame.depth, 1)} :
       \E depth_up \in {IF ~depth.defined THEN Thrown
                         ELSE IF UpsampleAfter(net_stage) THEN Interpolate(depth)
                         ELSE depth} :
       \E view_weights_up \in {IF ~depth_up.defined THEN Thrown
                                ELSE IF UpsampleAfter(net_stage)
                                THEN Interpolate(pm_frame.view_weights)
                                ELSE pm_frame.view_weights} :
       \E thrown \in {~depth_up.defined \/ IsThrown(view_weights_up)} :
           /\ net_pc' = IF thrown THEN "thrown" ELSE "loop"
           /\ net_depth' = depth_up
           /\ net_score' = pm_frame.score
           /\ net_view_weights' = view_weights_up
           /\ returns' = IF thrown THEN returns
                         ELSE Append(returns,
                                     [stage |-> net_stage, depth |-> depth,
                                      score |-> pm_frame.score,
                                      view_weights |-> pm_frame.view_weights,
                                      depth_up |-> depth_up,
                                      view_weights_up |-> view_weights_up])
           /\ net_stage' = IF thrown THEN net_stage ELSE net_stage - 1
    /\ pm_frame' = NoFrame
    /\ UNCHANGED <<net_images, net_cfg, patch_match, ref_features, src_features,
                   calls, iters, net_output>>

\* Lines 712-715: refinement at the image resolution and the confidence.
Finish ==
    /\ net_pc = "loop"
    /\ net_stage = 0
    /\ \E depth \in {Refinement_forward(Image(0), net_depth)} :
       \E conf \in {IF ~depth.defined THEN Thrown
                     ELSE CalcConfidence(net_score, patch_match[1].num_samples)} :
           /\ net_output' = [depth |-> depth, conf |-> conf]
           /\ net_pc' = IF ~depth.defined \/ ~conf.defined THEN "thrown" ELSE "done"
    /\ UNCHANGED <<net_images, net_cfg, patch_match, ref_features, src_features,
                   net_depth, net_score, net_view_weights, net_stage, pm_frame,
                   calls, returns, iters>>

\* u is t upsampled by two on both spatial axes: the same data, one more
\* upsampling.
IsUpsampleOf(u, t) ==
    /\ u.defined /\ t.defined
    /\ Dim(t) = 4 /\ Dim(u) = 4
    /\ u.sizes = <<t.sizes[1], t.sizes[2], 2 * t.sizes[3], 2 * t.sizes[4]>>
    /\ u.tag = [t.tag EXCEPT !.ups = @ + 1]

\* C1: in one forward pass the stage loop runs for stage 3, then 2, then 1,
\* each once and in that order (a pass that returns has run all three); the
\* depth and the view weights are upsampled by two after stages 3 and 2 and
\* not after stage 1; and the depth and view weights a stage returns, after
\* that upsampling, are the ones passed as prior to the next stage.
C1_StagesInOrderWithUpsampling ==
    /\ Len(calls) <= kNumStages - 1
    /\ \A k \in 1..Len(calls) : calls[k].stage = kNumStages - k
    /\ Len(returns) <= Len(calls) /\ Len(calls) <= Len(returns) + 1
    /\ \A k \in 1..Len(returns) :
           /\ returns[k].stage = calls[k].stage
           /\ returns[k].stage \in {3, 2} =>
                  /\ IsUpsampleOf(returns[k].depth_up, returns[k].depth)
                  /\ IsUpsampleOf(returns[k].view_weights_up, returns[k].view_weights)
           /\ returns[k].stage = 1 =>
                  /\ returns[k].depth_up = returns[k].depth
                  /\ returns[k].view_weights_up = returns[k].view_weights
    /\ \A k \in 2..Len(calls) :
           /\ calls[k].depth_init = returns[k - 1].depth_up
           /\ calls[k].view_weights_init = returns[k - 1].view_weights_up
    /\ net_pc = "done" =>
           /\ Len(returns) = kNumStages - 1
           /\ net_depth = returns[kNumStages - 1].depth

\* C1, its case: a pass has returned after stages 3, 2, 1 with two
\* upsamplings, the stage-1 prior being the upsampled stage-2 depth.
C1_Witness ==
    /\ net_pc = "done"
    /\ [k \in 1..Len(calls) |-> calls[k].stage] = <<3, 2, 1>>
    /\ returns[1].depth.sizes = <<2, 1, 1, 2>>
    /\ returns[1].depth_up.sizes = <<2, 1, 2, 4>>
    /\ returns[2].depth_up.sizes = <<2, 1, 4, 8>>
    /\ calls[3].depth_init = returns[2].depth_up
    /\ calls[3].view_weights_init.tag.ups = 2
    /\ returns[3].depth_up.sizes = <<2, 1, 4, 8>>

\* C2: PixelwiseNet is invoked only in the first iteration of stage 3, once
\* per source view, and the view weights it yields there are the ones every
\* later iteration and stage gets and returns unchanged (upsampled between
\* stages); PixelwiseNet is never invoked on a stage module that did not
\* register it; a pass that returns has computed the view weights once.
C2_ViewWeightsComputedOnce ==
    /\ \A k \in 1..Len(iters) :
           LET e == iters[k]
           IN  /\ e.pixelwise # <<>> =>
                      /\ e.stage = 3 /\ e.iter = 0
                      /\ patch_match[e.stage].evaluation.pixelwise_net
               /\ (e.evaluated /\ e.stage = 3 /\ e.iter = 0) =>
                      /\ ~e.has_weights
                      /\ e.pixelwise = [i \in 1..(net_images.sizes[2] - 1) |-> i]
                      /\ ~e.thrown =>
                             /\ e.view_weights_out.tag = Tag("pixelwise", 3, 0)
                             /\ e.view_weights_out.sizes[2] = net_images.sizes[2] - 1
               /\ (e.evaluated /\ ~(e.stage = 3 /\ e.iter = 0)) =>
                      /\ e.has_weights
                      /\ e.pixelwise = <<>>
                      /\ e.view_weights_in.tag.op = "pixelwise"
                      /\ e.view_weights_in.tag.stage = 3
                      /\ e.view_weights_in.tag.iter = 0
                      /\ e.view_weights_in.tag.ups = (kNumStages - 1) - e.stage
                      /\ ~e.thrown => e.view_weights_out = e.view_weights_in
    /\ net_pc = "done" =>
           /\ \A s \in Stages : patch_match[s].iterations >= 1
           /\ Cardinality({k \in 1..Len(iters) : iters[k].pixelwise # <<>>}) = 1

\* C2, its case: a pass with two source views and two iterations at stage 3
\* has returned; the second iteration of stage 3 and stage 1 got the view
\* weights of the first iteration of stage 3.
C2_Witness ==
    /\ net_pc = "done"
    /\ net_images.sizes[2] = 3
    /\ patch_match[3].iterations = 2
    /\ iters[1].pixelwise = <<1, 2>>
    /\ iters[2].stage = 3 /\ iters[2].iter = 1
    /\ iters[2].view_weights_out = iters[1].view_weights_out
    /\ iters[Len(iters)].stage = 1
    /\ iters[Len(iters)].view_weights_out.tag = [Tag("pixelwise", 3, 0) EXCEPT !.ups = 2]

\* C12: in the loop of a stage, an iteration that has its hypotheses executes
\* SpatialPropagation if and only if the propagation count of the stage is > 0
\* and it is not the last iteration of stage 1: stages 2 and 3 with propagation
\* enabled propagate at every iteration, stage 1 never at its last one.  A
\* propagation that returns adds the propagation count to the hypotheses; an
\* iteration without one evaluates the hypotheses of InitDepth as they are.
C12_PropagationExactlyWhenEnabled ==
    \A k \in 1..Len(iters) :
        LET e == iters[k]
            m == patch_match[e.stage]
        IN  e.init.defined =>
                /\ e.propagated <=>
                       (m.propagation_neighbors > 0
                        /\ ~(e.stage = 1 /\ e.iter = m.iterations - 1))
                /\ (e.stage \in {2, 3} /\ m.propagation_neighbors > 0) => e.propagated
                /\ (e.stage = 1 /\ e.iter = m.iterations - 1) => ~e.propagated
                /\ (e.propagated /\ e.hypotheses.defined) =>
                       /\ e.hypotheses.tag.op = "propagation"
                       /\ e.hypotheses.sizes[2] = e.init.sizes[2] + m.propagation_neighbors
                /\ ~e.propagated => e.hypotheses = e.init

\* C12, its case: a pass has returned in which stage 1 has 16 propagation
\* neighbours and two iterations, the first of which propagated and the last
\* did not, stage 2 propagated at its last iteration and stage 3, without
\* propagation neighbours, did not propagate.
C12_Witness ==
    /\ net_pc = "done"
    /\ patch_match[1].propagation_neighbors = 16
    /\ patch_match[1].iterations = 2
    /\ patch_match[3].propagation_neighbors = 0
    /\ ~iters[1].propagated
    /\ \E k \in 1..Len(iters) :
           /\ iters[k].stage = 2 /\ iters[k].iter = patch_match[2].iterations - 1
           /\ iters[k].propagated
    /\ iters[Len(iters) - 1].stage = 1
    /\ iters[Len(iters) - 1].propagated
    /\ iters[Len(iters) - 1].hypotheses.sizes[2] = patch_match[1].num_samples + 16
    /\ ~iters[Len(iters)].propagated

\* C13: the inverse-depth regression is used by exactly one Evaluation of a
\* forward pass, the one of the last iteration of stage 1; every other
\* Evaluation of every stage computes the depth as the probability-weighted
\* sum of the hypothesis depths.
C13_InverseRegressionOnlyAtTheEnd ==
    /\ \A k \in 1..Len(iters) :
           LET e == iters[k]
               terminal == e.stage = 1 /\ e.iter = patch_match[1].iterations - 1
           IN  (e.evaluated /\ ~e.thrown) =>
                   /\ e.is_inverse <=> terminal
                   /\ terminal => e.depth.tag.op = "inverse_regression"
                   /\ ~terminal => e.depth.tag.op = "regression"
                   /\ e.depth.tag.stage = e.stage /\ e.depth.tag.iter = e.iter
    /\ net_pc = "done" =>
           /\ {k \in 1..Len(iters) : iters[k].depth.tag.op = "inverse_regression"}
                  = {Len(iters)}
           /\ net_depth.tag.op = "inverse_regression"

\* C13, its case: a pass with two iterations at every stage has returned; its
\* six Evaluations regressed five times by the weighted sum and the last time
\* in inverse depth.
C13_Witness ==
    /\ net_pc = "done"
    /\ \A s \in Stages : patch_match[s].iterations = 2
    /\ Len(iters) = 6
    /\ \A k \in 1..5 : iters[k].depth.tag.op = "regression" /\ ~iters[k].is_inverse
    /\ iters[6].stage = 1 /\ iters[6].iter = 1
    /\ iters[6].is_inverse
    /\ iters[6].depth.tag.op = "inverse_regression"

\* C15 (as stated): for any batch size and any stage with two or more
\* iterations, the depth an iteration hands to InitDepth at the next
\* iteration has the shape batch x 1 x H x W, and every hypothesis volume
\* InitDepth generates in the loop has the four axes batch x samples x H x W;
\* no perturbation of an even number of samples fails on the shape of its
\* prior.
C15_PriorKeepsSampleAxis ==
    \A k \in 1..Len(iters) :
        LET e == iters[k]
            batch_size == net_images.sizes[1]
            height == ref_features[e.stage].sizes[3]
            width == ref_features[e.stage].sizes[4]
        IN  /\ e.iter >= 1 => e.prior.sizes = <<batch_size, 1, height, width>>
            /\ e.init.defined =>
                   /\ Dim(e.init) = 4
                   /\ e.init.sizes[1] = batch_size
                   /\ e.init.sizes[3] = height /\ e.init.sizes[4] = width
                   /\ e.prior.defined => e.init.sizes[2] = patch_match[e.stage].num_samples
            /\ patch_match[e.stage].num_samples % 2 = 0 => e.init.defined

\* C16 (as stated): on the last iteration of stage 1, whatever num_samples
\* >= 1 stage 1 is configured with, the hypothesis volume passed to the
\* inverse-depth regression has at least 2 hypotheses per pixel, so that the
\* divisor (hypotheses - 1) of the regression is not zero.
C16_RegressionHasTwoHypotheses ==
    \A k \in 1..Len(iters) :
        (iters[k].evaluated /\ iters[k].is_inverse) =>
            /\ iters[k].hypotheses.sizes[2] >= 2
            /\ iters[k].hypotheses.sizes[2] - 1 # 0

\* C17: whenever the loop of a stage executes SpatialPropagation, the
\* propagation sampling grid of that stage has been computed: the
\* propagation-offset convolution was registered at construction, and the
\* grid passed to the propagation is defined, with one row block per
\* propagation neighbour.
C17_PropagationGridDefined ==
    \A k \in 1..Len(iters) :
        LET e == iters[k]
            m == patch_match[e.stage]
        IN  e.propagated =>
                /\ m.propagation_conv
                /\ e.propagation_grid.defined
                /\ e.propagation_grid.sizes =
                       <<net_images.sizes[1],
                         m.propagation_neighbors * ref_features[e.stage].sizes[3],
                         ref_features[e.stage].sizes[4], 2>>

\* C17, its case: stage 1, with 4 propagation neighbours and two iterations,
\* has propagated at its first iteration with the grid of its convolution,
\* after stage 3 propagated with 8 neighbours and stage 2, with none, did not.
C17_Witness ==
    /\ patch_match[1].propagation_neighbors = 4
    /\ patch_match[1].iterations = 2
    /\ patch_match[1].propagation_conv
    /\ Len(iters) >= 3
    /\ iters[Len(iters)].stage = 1 /\ iters[Len(iters)].iter = 0
    /\ iters[Len(iters)].propagated
    /\ iters[Len(iters)].propagation_grid.sizes = <<1, 16, 8, 2>>
    /\ iters[Len(iters) - 1].stage = 2
    /\ ~iters[Len(iters) - 1].propagated
    /\ iters[1].stage = 3
    /\ iters[1].propagated
    /\ iters[1].propagation_grid.sizes = <<1, 8, 2, 2>>

\* C18: in a pass where every stage runs at least one iteration, the last
\* iteration of stage 1 has a prior and does not propagate, whatever the
\* stage's neighbour count and iteration count; the probability volume that
\* stage 1 returns has exactly num_samples[stage 1] hypotheses per pixel; and
\* Confidence, which multiplies it with an index vector of that length,
\* accepts it once Refinement has returned.
C18_FinalScoreHasNumSamplesHypotheses ==
    (Len(returns) = kNumStages - 1 /\ \A s \in Stages : patch_match[s].iterations >= 1)
        => /\ returns[kNumStages - 1].stage = 1
           /\ iters # <<>>
           /\ iters[Len(iters)].stage = 1
           /\ iters[Len(iters)].iter = patch_match[1].iterations - 1
           /\ iters[Len(iters)].prior.defined
           /\ ~iters[Len(iters)].propagated
           /\ returns[kNumStages - 1].score.defined
           /\ Dim(returns[kNumStages - 1].score) = 4
           /\ returns[kNumStages - 1].score.sizes[2] = patch_match[1].num_samples
           /\ net_score = returns[kNumStages - 1].score
           /\ (net_pc \in {"done", "thrown"} /\ net_output.depth.defined)
                  => net_output.conf.defined

\* A finished pass whose stage 1 has sixteen neighbours and two iterations:
\* its first iteration evaluated the local samples and the sixteen
\* propagated ones, its last only the local ones, and Confidence returned.
C18_Witness ==
    /\ net_pc = "done"
    /\ patch_match[1].propagation_neighbors = 16
    /\ patch_match[1].iterations = 2
    /\ Len(returns) = kNumStages - 1
    /\ Len(iters) >= 2
    /\ iters[Len(iters) - 1].stage = 1
    /\ iters[Len(iters) - 1].propagated
    /\ iters[Len(iters) - 1].hypotheses.sizes[2] = patch_match[1].num_samples + 16
    /\ iters[Len(iters)].hypotheses.sizes[2] = patch_match[1].num_samples
    /\ returns[kNumStages - 1].score.sizes[2] = patch_match[1].num_samples
    /\ net_output.conf.defined

(***************************************************************************)
(* Confidence: PatchMatchNetModuleImpl::CalcConfidence on the values, for  *)
(* one batch element.  A probability volume maps each pixel to the         *)
(* sequence of the probabilities of its hypotheses.                        *)
(***************************************************************************)

RECURSIVE RSumSeq(_)
RSumSeq(q) == IF q = <<>> THEN RInt(0) ELSE RAdd(Head(q), RSumSeq(Tail(q)))

\* torch::nn::functional::pad along the hypothesis axis, with zeros.
ZeroPad(q, before, after) ==
    [i \in 1..before |-> RInt(0)] \o q \o [i \in 1..after |-> RInt(0)]

\* avg_pool3d with kernel {4, 1, 1}, stride 1, no padding, along the
\* hypothesis axis.
AvgPool4(q) ==
    [k \in 1..(Len(q) - 3) |-> RDiv(RSumSeq(SubSeq(q, k, k + 3)), RInt(4))]

\* A variant of ToLong that rounds to the nearest integer.
ToLongNearest(x) == RFloor(RAdd(x, Rat(1, 2)))

\* Tensor::to(torch::kLong): the fraction is cut off (toward zero).
ToLong(x) == CDiv(x[1], x[2])

\* One axis of the bilinear interpolation by two (align_corners false): the
\* two source indices of destination index i and the weight of the second.
BilinearSource(i, size) ==
    LET src == RSub(RDiv(RAdd(RInt(i), Rat(1, 2)), RInt(kInterpScale)), Rat(1, 2))
        pos == IF RLess(src, RInt(0)) THEN RInt(0) ELSE src
        i0 == RFloor(pos)
    IN  [i0 |-> i0, i1 |-> IF i0 < size - 1 THEN i0 + 1 ELSE i0,
         lambda |-> RSub(pos, RInt(i0))]

\* torch::nn::functional::interpolate(map, kInterpBilinear) of a map of
\* height x width values.
InterpolateValues(map, height, width) ==
    [p \in Pixels(kInterpScale * height, kInterpScale * width) |->
        LET y == BilinearSource(p[1], height)
            x == BilinearSource(p[2], width)
            row(r) == RAdd(RMul(RSub(RInt(1), x.lambda), map[<<r, x.i0>>]),
                           RMul(x.lambda, map[<<r, x.i1>>]))
        IN  RAdd(RMul(RSub(RInt(1), y.lambda), row(y.i0)),
                 RMul(y.lambda, row(y.i1)))]

NoConfidence ==
    [defined |-> FALSE, thrown |-> FALSE, score_sum |-> <<>>, depth_index |-> <<>>,
     gathered |-> <<>>, conf |-> <<>>]

ThrownConfidence == [NoConfidence EXCEPT !.thrown = TRUE]

\* PatchMatchNetModuleImpl::CalcConfidence.  The index vector has num_depth
\* entries: the product with the volume needs as many hypotheses (or one on
\* either side), and gather needs the index inside the volume.
CalcConfidenceValues(score_in, num_depth) ==
    LET pixels == Pixels(score_in.height, score_in.width)
        hypotheses(p) == Len(score_in.at[p])
        score_sum == [p \in pixels |->
                         [k \in 1..hypotheses(p) |->
                             RMul(RInt(4), AvgPool4(ZeroPad(score_in.at[p], 1, 2))[k])]]
        broadcasts == \A p \in pixels :
                          hypotheses(p) = num_depth \/ hypotheses(p) = 1 \/ num_depth = 1
        expectation(p) ==
            RSumSeq([k \in 1..Max(hypotheses(p), num_depth) |->
                        RMul(IF hypotheses(p) = 1 THEN score_in.at[p][1]
                             ELSE score_in.at[p][k],
                             IF num_depth = 1 THEN RInt(0) ELSE RInt(k - 1))])
        depth_index == [p \in pixels |->
                           Max(0, Min(ToLong(expectation(p)), num_depth - 1))]
        gathered == [p \in pixels |-> score_sum[p][depth_index[p] + 1]]
    IN  IF ~score_in.defined \/ ~broadcasts THEN ThrownConfidence
        ELSE IF \E p \in pixels : depth_index[p] >= hypotheses(p) THEN ThrownConfidence
        ELSE [defined |-> TRUE, thrown |-> FALSE, score_sum |-> score_sum,
              depth_index |-> depth_index, gathered |-> gathered,
              conf |-> InterpolateValues(gathered, score_in.height, score_in.width)]

\* Bounds of the Confidence inputs: the hypotheses per pixel, and the
\* probabilities are multiples of 1 / ProbSteps.
MaxHypotheses == 4
ProbSteps == 4

\* The probability vectors of n hypotheses: they add up to one, as the
\* softmax of line 383 leaves them.
Distributions(n) ==
    {[k \in 1..n |-> Rat(f[k], ProbSteps)] :
        f \in {g \in [1..n -> 0..ProbSteps] : RSumSeq([k \in 1..n |-> RInt(g[k])]) = RInt(ProbSteps)}}

Reverse(q) == [k \in 1..Len(q) |-> q[Len(q) + 1 - k]]

ConfidenceInit ==
    /\ cf_pc = "ready"
    /\ cf_result = NoConfidence
    /\ \E n \in 1..MaxHypotheses : \E q \in Distributions(n) :
           /\ cf_num_depth = n
           /\ cf_score = Volume(1, 2, [p \in Pixels(1, 2) |->
                                         IF p[2] = 0 THEN q ELSE Reverse(q)])

ConfidenceIdle ==
    /\ cf_pc = "idle"
    /\ cf_result = NoConfidence
    /\ cf_num_depth = 0
    /\ cf_score = NoVolume

Confidence ==
    /\ cf_pc = "ready"
    /\ cf_result' = CalcConfidenceValues(cf_score, cf_num_depth)
    /\ cf_pc' = "done"
    /\ UNCHANGED <<cf_score, cf_num_depth>>

\* The expected hypothesis index of pixel p: the sum of k * p_k, k from 0.
ExpectedIndex(p) ==
    RSumSeq([k \in 1..Len(cf_score.at[p]) |-> RMul(RInt(k - 1), cf_score.at[p][k])])

\* The sum of the probabilities of pixel p at the hypotheses i - 1 .. i + 2
\* (k from 0) that exist.
MovingSum(p, i) ==
    RSumSeq([j \in 1..4 |->
                IF i + j - 2 \in 0..(Len(cf_score.at[p]) - 1)
                THEN cf_score.at[p][i + j - 1] ELSE RInt(0)])

\* The distance of the index i from the fraction x.
Distance(i, x) == IF RLess(x, RInt(i)) THEN RSub(RInt(i), x) ELSE RSub(x, RInt(i))

\* C14 (as stated): for every pixel Confidence gathers the 4-wide moving sum
\* of the probability volume at the valid hypothesis index nearest to the
\* expected index sum_k k * p_k.
C14_GathersAtNearestIndex ==
    cf_pc = "done" =>
        /\ cf_result.defined
        /\ \A p \in Pixels(cf_score.height, cf_score.width) :
             \E i \in 0..(cf_num_depth - 1) :
                /\ \A j \in 0..(cf_num_depth - 1) :
                       RLeq(Distance(i, ExpectedIndex(p)), Distance(j, ExpectedIndex(p)))
                /\ cf_result.depth_index[p] = i
                /\ cf_result.gathered[p] = MovingSum(p, i)

\* C14 (amended): for every pixel Confidence gathers the 4-wide moving sum of
\* the probability volume (the probabilities at the indices i - 1 .. i + 2) at
\* the index i that is the expected index sum_k k * p_k with its fraction cut
\* off, the largest valid index not above the expectation.
C14_GathersAtTruncatedIndex ==
    cf_pc = "done" =>
        /\ cf_result.defined
        /\ \A p \in Pixels(cf_score.height, cf_score.width) :
             \E i \in 0..(cf_num_depth - 1) :
                /\ RLeq(RInt(i), ExpectedIndex(p))
                /\ RLess(ExpectedIndex(p), RInt(i + 1))
                /\ cf_result.depth_index[p] = i
                /\ cf_result.gathered[p] = MovingSum(p, i)

\* C14, its case: Confidence has run on a pixel of four hypotheses whose
\* expected index is 7/4: the cut-off index is 1, where the moving sum is the
\* whole mass, while the nearest index is 2.
C14_Witness ==
    /\ cf_pc = "done"
    /\ cf_num_depth = 4
    /\ cf_score.at[<<0, 0>>] = <<Rat(1, 4), Rat(1, 4), Rat(0, 4), Rat(2, 4)>>
    /\ ExpectedIndex(<<0, 0>>) = Rat(7, 4)
    /\ cf_result.depth_index[<<0, 0>>] = 1
    /\ cf_result.gathered[<<0, 0>>] = RInt(1)
    /\ cf_result.depth_index[<<0, 1>>] = 1
    /\ cf_result.gathered[<<0, 1>>] = RInt(1)

(***************************************************************************)
(* Specifications.                                                         *)
(***************************************************************************)

InitFeature ==
    FeatureInit /\ ConstructIdle /\ LoadIdle /\ InitDepthIdle /\ PropagationIdle /\ WarpIdle /\ ForwardIdle /\ ConfidenceIdle

NextFeature == FeatureForward /\ UNCHANGED <<ct_vars, ld_vars, id_vars, pr_vars, dw_vars, net_vars, cf_vars>>

SpecFeature == InitFeature /\ [][NextFeature]_vars

InitConstruct ==
    ConstructInit /\ FeatureIdle /\ LoadIdle /\ InitDepthIdle /\ PropagationIdle /\ WarpIdle /\ ForwardIdle /\ ConfidenceIdle

NextConstruct == Construct /\ UNCHANGED <<fn_vars, ld_vars, id_vars, pr_vars, dw_vars, net_vars, cf_vars>>

SpecConstruct == InitConstruct /\ [][NextConstruct]_vars

InitLoad ==
    LoadInit /\ FeatureIdle /\ ConstructIdle /\ InitDepthIdle /\ PropagationIdle /\ WarpIdle /\ ForwardIdle /\ ConfidenceIdle

NextLoad ==
    \/ ReadParameter /\ UNCHANGED <<fn_vars, ct_vars, id_vars, pr_vars, dw_vars, net_vars, cf_vars>>
    \/ ReadBuffer /\ UNCHANGED <<fn_vars, ct_vars, id_vars, pr_vars, dw_vars, net_vars, cf_vars>>

SpecLoad == InitLoad /\ [][NextLoad]_vars

InitInitDepth ==
    InitDepthInit /\ FeatureIdle /\ ConstructIdle /\ LoadIdle /\ PropagationIdle /\ WarpIdle /\ ForwardIdle /\ ConfidenceIdle

NextInitDepth == InitDepthForward /\ UNCHANGED <<fn_vars, ct_vars, ld_vars, pr_vars, dw_vars, net_vars, cf_vars>>

SpecInitDepth == InitInitDepth /\ [][NextInitDepth]_vars

InitPropagation ==
    PropagationInit /\ FeatureIdle /\ ConstructIdle /\ LoadIdle /\ InitDepthIdle /\ WarpIdle /\ ForwardIdle /\ ConfidenceIdle

NextPropagation == PropagationForward /\ UNCHANGED <<fn_vars, ct_vars, ld_vars, id_vars, dw_vars, net_vars, cf_vars>>

SpecPropagation == InitPropagation /\ [][NextPropagation]_vars

InitWarp ==
    WarpInit /\ FeatureIdle /\ ConstructIdle /\ LoadIdle /\ InitDepthIdle /\ PropagationIdle /\ ForwardIdle /\ ConfidenceIdle

NextWarp == Warp /\ UNCHANGED <<fn_vars, ct_vars, ld_vars, id_vars, pr_vars, net_vars, cf_vars>>

SpecWarp == InitWarp /\ [][NextWarp]_vars

InitForward ==
    ForwardInit /\ FeatureIdle /\ ConstructIdle /\ LoadIdle /\ InitDepthIdle /\ PropagationIdle /\ WarpIdle /\ ConfidenceIdle

NextForward ==
    \/ ExtractFeatures /\ UNCHANGED <<fn_vars, ct_vars, ld_vars, id_vars, pr_vars, dw_vars, cf_vars>>
    \/ CallStage /\ UNCHANGED <<fn_vars, ct_vars, ld_vars, id_vars, pr_vars, dw_vars, cf_vars>>
    \/ Iterate /\ UNCHANGED <<fn_vars, ct_vars, ld_vars, id_vars, pr_vars, dw_vars, cf_vars>>
    \/ ReturnStage /\ UNCHANGED <<fn_vars, ct_vars, ld_vars, id_vars, pr_vars, dw_vars, cf_vars>>
    \/ Finish /\ UNCHANGED <<fn_vars, ct_vars, ld_vars, id_vars, pr_vars, dw_vars, cf_vars>>

SpecForward == InitForward /\ [][NextForward]_vars

InitConfidence ==
    ConfidenceInit /\ FeatureIdle /\ ConstructIdle /\ LoadIdle /\ InitDepthIdle /\ PropagationIdle /\ WarpIdle /\ ForwardIdle

NextConfidence == Confidence /\ UNCHANGED <<fn_vars, ct_vars, ld_vars, id_vars, pr_vars, dw_vars, net_vars>>

SpecConfidence == InitConfidence /\ [][NextConfidence]_vars

=============================================================================
